---- MODULE Spec2Model ----
(***************************************************************************)
(* Car expense tracker: the entity services (expense, refill, trip), the   *)
(* mileage aggregator and the SQLite record store they run against.        *)
(*                                                                         *)
(* JavaScript values are records [k, v]: k is the kind ("number",          *)
(* "Infinity", "NaN", "string", "undefined", "null"), v the payload.       *)
(* Date strings are records [k, d, h, z]: k = "iso" stands for the text    *)
(* "2024-01-<d>T<h>:00:00+<z>:00", the other kinds for the empty string,   *)
(* an unparseable text and undefined.                                      *)
(*                                                                         *)
(* The HTTP layer: the password gate, the signed session tokens, the       *)
(* sessionId cookie and the route handlers in front of the services.  A    *)
(* token is a record [k, key, exp, authenticated]: k = "jwt" is a          *)
(* well-formed token signed with key, carrying the claims exp and          *)
(* authenticated.                                                          *)
(***************************************************************************)
EXTENDS Integers, Sequences, FiniteSets, TLC

VARIABLES expenses, refills, trips, seq, now, ret,
          env, cookies, issued, response, schema, loop

\* The process environment, the browser's cookie jar, the tokens signed so
\* far (each held by whoever received it) and the last HTTP response.
web == <<env, cookies, issued, response>>

vars == <<expenses, refills, trips, seq, now, ret, env, cookies, issued, response,
         schema, loop>>

\* ---------------------------------------------------------------- bounds
\* Requests in flight at once.
MaxRequests == 2
\* Rows inserted over a run, all tables together.
MaxInserts == 2
\* Last tick of the wall clock.
MaxClock == 1
\* Largest finite magnitude offered as an amount or a distance.
MaxNum == 2
\* Longest text offered as JWT_EXPIRES_IN.
MaxDurationLen == 3

\* ------------------------------------------------------- JavaScript values
Num(n) == [k |-> "number", v |-> n]
Infinity == [k |-> "Infinity", v |-> 0]
NaN == [k |-> "NaN", v |-> 0]
Undefined == [k |-> "undefined", v |-> 0]
Null == [k |-> "null", v |-> 0]
NotANumber == [k |-> "string", v |-> 0]
Str(s) == [k |-> "string", v |-> s]
UndefinedStr == [k |-> "undefined", v |-> ""]
NullStr == [k |-> "null", v |-> ""]

\* typeof x
typeof(x) == IF x.k \in {"number", "Infinity", "NaN"} THEN "number" ELSE x.k

\* x <= 0 on a value whose typeof is "number": false for NaN.
leqZero(x) == x.k = "number" /\ x.v <= 0

\* x > 0 as SQLite's CHECK evaluates it: NULL passes a CHECK.
checkPositive(x) == x.k = "null" \/ x.k = "Infinity" \/ (x.k = "number" /\ x.v > 0)

\* A number bound to a statement parameter: SQLite stores NaN as NULL.
bindNumber(x) == IF x.k = "NaN" THEN Null ELSE x

\* Efficiency is kept in hundredths: the quotient rounded as far as the
\* representation goes.
Scale == 100

\* a + b on positive numbers.
jsAdd(a, b) ==
  IF a.k = "Infinity" \/ b.k = "Infinity" THEN Infinity ELSE Num(a.v + b.v)

\* a / b on numbers with a > 0 and b > 0.
jsDiv(a, b) ==
  IF a.k = "NaN" \/ b.k = "NaN" THEN NaN
  ELSE IF a.k = "Infinity" /\ b.k = "Infinity" THEN NaN
  ELSE IF a.k = "Infinity" THEN Infinity
  ELSE IF b.k = "Infinity" THEN Num(0)
  ELSE Num((a.v * Scale) \div b.v)

\* A faulty orNull: x ?? null, which keeps the empty string.
orNullKeepsEmpty(x) == IF x.k = "string" THEN x ELSE NullStr

\* x || null for an optional text.
orNull(x) == IF x.k = "string" /\ x.v # "" THEN x ELSE NullStr

\* x || undefined for an optional text column.
orUndefined(x) == IF x.k = "string" /\ x.v # "" THEN x ELSE UndefinedStr

\* s.trim() === ''
isBlank(s) == s.k = "string" /\ s.v \in {"", " "}

\* ------------------------------------------------------------------ dates
IsoDate(d, h, z) == [k |-> "iso", d |-> d, h |-> h, z |-> z]
EmptyDate == [k |-> "empty", d |-> 0, h |-> 0, z |-> 0]
GarbageDate == [k |-> "garbage", d |-> 0, h |-> 0, z |-> 0]
UndefinedDate == [k |-> "undefined", d |-> 0, h |-> 0, z |-> 0]
NullDate == [k |-> "null", d |-> 0, h |-> 0, z |-> 0]

\* !date
falsyDate(date) == date.k \in {"empty", "undefined", "null"}

\* isNaN(new Date(date).getTime()): new Date(null) is the epoch.
invalidDate(date) == date.k \notin {"iso", "null"}

\* new Date(date).getTime(), in hours, of a valid date.
getTime(date) == date.d * 24 + date.h - date.z

\* SQLite's comparison of two TEXT dates (BINARY collation): byte by byte,
\* which on the fixed-width text is field by field.
textLess(a, b) ==
  \/ a.d < b.d
  \/ a.d = b.d /\ a.h < b.h
  \/ a.d = b.d /\ a.h = b.h /\ a.z < b.z

textLeq(a, b) == a = b \/ textLess(a, b)

\* ------------------------------------------------------------- call results
NoVal == [none |-> TRUE]
Returned(op, arg, val) ==
  [op |-> op, status |-> "ok", msg |-> "", arg |-> arg, val |-> val]
Thrown(op, msg) ==
  [op |-> op, status |-> "throw", msg |-> msg, arg |-> NoVal, val |-> NoVal]

\* The fields a partial update supplies.
keysOf(updates) == {f \in DOMAIN updates : updates[f].k # "undefined"}

\* A faulty setField: a text column the patch leaves out is cleared.
setFieldClearsText(update, bound, stored) ==
  IF update.k # "undefined" THEN bound
  ELSE IF stored.k = "string" THEN NullStr ELSE stored

\* if (updates.x !== undefined) { fields.push('x = ?'); values.push(bound) }:
\* the column's value after the UPDATE.
setField(update, bound, stored) == IF update.k # "undefined" THEN bound ELSE stored

\* A faulty touch: the statement also rewrites created_at.
touchCreatedToo(row, t) == [row EXCEPT !.updated_at = t, !.created_at = t]

\* A faulty touch: the statement leaves updated_at alone and clears the
\* optional text of the row.
touchClearsText(row, t) ==
  [f \in DOMAIN row |-> IF f \in {"description", "notes", "purpose"} THEN NullStr ELSE row[f]]

\* fields.push('updated_at = ?'); values.push(new Date().toISOString())
touch(row, t) == [row EXCEPT !.updated_at = t]

\* The outcome of a service call: the table and its AUTOINCREMENT counter
\* afterwards, and what the caller gets.
Outcome(rows, n, r) == [rows |-> rows, seq |-> n, ret |-> r]

\* The greatest number of a non-empty set.
greatest(S) == CHOOSE i \in S : \A j \in S : j <= i

\* A faulty id column: INTEGER PRIMARY KEY without AUTOINCREMENT, where the
\* new row gets one more than the greatest id in the table.
rowidOnly(rows, n) == greatest(DOMAIN rows \cup {0}) + 1

\* id INTEGER PRIMARY KEY AUTOINCREMENT: the new row gets one more than the
\* greatest id the table has ever held, which SQLite keeps in sqlite_sequence
\* (n), and never less than one more than the greatest id in the table.
autoincrement(rows, n) == greatest(DOMAIN rows \cup {n}) + 1

\* A failed statement: better-sqlite3 throws a SqliteError.
SqliteError == "SQLITE_CONSTRAINT"

\* ------------------------------------------------------------ trip service
mapRowToTrip(row) ==
  [id |-> row.id, distance |-> row.distance, date |-> row.date,
   purpose |-> orUndefined(row.purpose), notes |-> orUndefined(row.notes),
   createdAt |-> row.created_at, updatedAt |-> row.updated_at]

getTripById(id) == IF id \in DOMAIN trips THEN mapRowToTrip(trips[id]) ELSE Null

\* INSERT INTO trips: NOT NULL and CHECK(distance > 0) on the bound values.
tripRowAccepted(row) ==
  row.distance.k # "null" /\ checkPositive(row.distance) /\ row.date.k # "null"

\* The INSERT with the date rewritten to UTC before it is bound.
tripValuesUtc(id, trip, t) ==
  [id |-> id, distance |-> bindNumber(trip.distance),
   date |-> IF trip.date.k = "iso"
            THEN IsoDate(getTime(trip.date) \div 24, getTime(trip.date) % 24, 0)
            ELSE trip.date,
   purpose |-> orNull(trip.purpose), notes |-> orNull(trip.notes),
   created_at |-> t, updated_at |-> t]

\* The values createTrip binds to its INSERT.
tripValues(id, trip, t) ==
  [id |-> id, distance |-> bindNumber(trip.distance), date |-> trip.date,
   purpose |-> orNull(trip.purpose), notes |-> orNull(trip.notes),
   created_at |-> t, updated_at |-> t]

\* A faulty createTrip: the date is looked at after the INSERT.
createTripInsertsFirst(trip) ==
  IF typeof(trip.distance) # "number" \/ leqZero(trip.distance)
  THEN Outcome(trips, seq.trips, Thrown("createTrip", "Distance must be a positive number"))
  ELSE
    LET id == autoincrement(trips, seq.trips)
        row == tripValues(id, trip, now)
        inserted == [i \in DOMAIN trips \cup {id} |-> IF i = id THEN row ELSE trips[i]]
    IN IF ~tripRowAccepted(row)
       THEN Outcome(trips, seq.trips, Thrown("createTrip", SqliteError))
       ELSE IF falsyDate(trip.date)
       THEN Outcome(inserted, id, Thrown("createTrip", "Required field missing: date"))
       ELSE IF invalidDate(trip.date)
       THEN Outcome(inserted, id,
                    Thrown("createTrip", "Invalid date format. Use ISO 8601 format"))
       ELSE Outcome(inserted, id, Returned("createTrip", NoVal, mapRowToTrip(row)))

createTrip(trip) ==
  IF typeof(trip.distance) # "number" \/ leqZero(trip.distance)
  THEN Outcome(trips, seq.trips, Thrown("createTrip", "Distance must be a positive number"))
  ELSE IF falsyDate(trip.date)
  THEN Outcome(trips, seq.trips, Thrown("createTrip", "Required field missing: date"))
  ELSE IF invalidDate(trip.date)
  THEN Outcome(trips, seq.trips, Thrown("createTrip", "Invalid date format. Use ISO 8601 format"))
  ELSE
    LET id == autoincrement(trips, seq.trips)
        row == tripValues(id, trip, now)
    IN IF ~tripRowAccepted(row)
       THEN Outcome(trips, seq.trips, Thrown("createTrip", SqliteError))
       ELSE Outcome([i \in DOMAIN trips \cup {id} |-> IF i = id THEN row ELSE trips[i]],
                    id, Returned("createTrip", NoVal, mapRowToTrip(row)))

updateTrip(id, updates) ==
  IF updates.distance # Undefined
     /\ (typeof(updates.distance) # "number" \/ leqZero(updates.distance))
  THEN Outcome(trips, seq.trips, Thrown("updateTrip", "Distance must be a positive number"))
  ELSE IF updates.date # UndefinedDate /\ invalidDate(updates.date)
  THEN Outcome(trips, seq.trips, Thrown("updateTrip", "Invalid date format. Use ISO 8601 format"))
  ELSE IF getTripById(id) = Null
  THEN Outcome(trips, seq.trips, Thrown("updateTrip", "Resource not found"))
  ELSE
    LET old == trips[id]
        row == touch([old EXCEPT
                 !.distance = setField(updates.distance, bindNumber(updates.distance), @),
                 !.date = setField(updates.date, updates.date, @),
                 !.purpose = setField(updates.purpose, orNull(updates.purpose), @),
                 !.notes = setField(updates.notes, orNull(updates.notes), @)], now)
    IN IF ~tripRowAccepted(row)
       THEN Outcome(trips, seq.trips, Thrown("updateTrip", SqliteError))
       ELSE Outcome([trips EXCEPT ![id] = row], seq.trips,
                    Returned("updateTrip", [id |-> id, keys |-> keysOf(updates)], mapRowToTrip(row)))

\* A faulty deleteTrip: result.changes >= 0.
deleteTripAlwaysTrue(id) ==
  Outcome([i \in DOMAIN trips \ {id} |-> trips[i]], seq.trips,
          Returned("deleteTrip", [id |-> id], TRUE))

\* A faulty deleteTrip: the statement has lost its WHERE clause.
deleteTripNoWhere(id) ==
  Outcome(<<>>, seq.trips, Returned("deleteTrip", [id |-> id], id \in DOMAIN trips))

deleteTrip(id) ==
  Outcome([i \in DOMAIN trips \ {id} |-> trips[i]], seq.trips,
          Returned("deleteTrip", [id |-> id], id \in DOMAIN trips))


\* --------------------------------------------------------- expense service
mapRowToExpense(row) ==
  [id |-> row.id, type |-> row.type, amount |-> row.amount, date |-> row.date,
   description |-> orUndefined(row.description),
   createdAt |-> row.created_at, updatedAt |-> row.updated_at]

getExpenseById(id) ==
  IF id \in DOMAIN expenses THEN mapRowToExpense(expenses[id]) ELSE Null

\* INSERT INTO expenses: NOT NULL and CHECK(amount > 0) on the bound values.
expenseRowAccepted(row) ==
  row.amount.k # "null" /\ checkPositive(row.amount) /\ row.date.k # "null"

\* The values createExpense binds to its INSERT.
expenseValues(id, expense, t) ==
  [id |-> id, type |-> expense.type, amount |-> bindNumber(expense.amount),
   date |-> expense.date, description |-> orNull(expense.description),
   created_at |-> t, updated_at |-> t]

createExpense(expense) ==
  IF expense.type.k = "undefined" \/ expense.type.v = "" \/ isBlank(expense.type)
  THEN Outcome(expenses, seq.expenses, Thrown("createExpense", "Required field missing: type"))
  ELSE IF typeof(expense.amount) # "number" \/ leqZero(expense.amount)
  THEN Outcome(expenses, seq.expenses, Thrown("createExpense", "Amount must be a positive number"))
  ELSE IF falsyDate(expense.date)
  THEN Outcome(expenses, seq.expenses, Thrown("createExpense", "Required field missing: date"))
  ELSE IF invalidDate(expense.date)
  THEN Outcome(expenses, seq.expenses,
               Thrown("createExpense", "Invalid date format. Use ISO 8601 format"))
  ELSE
    LET id == autoincrement(expenses, seq.expenses)
        row == expenseValues(id, expense, now)
    IN IF ~expenseRowAccepted(row)
       THEN Outcome(expenses, seq.expenses, Thrown("createExpense", SqliteError))
       ELSE Outcome([i \in DOMAIN expenses \cup {id} |-> IF i = id THEN row ELSE expenses[i]],
                    id, Returned("createExpense", NoVal, mapRowToExpense(row)))

updateExpense(id, updates) ==
  IF updates.amount # Undefined
     /\ (typeof(updates.amount) # "number" \/ leqZero(updates.amount))
  THEN Outcome(expenses, seq.expenses, Thrown("updateExpense", "Amount must be a positive number"))
  ELSE IF updates.date # UndefinedDate /\ invalidDate(updates.date)
  THEN Outcome(expenses, seq.expenses,
               Thrown("updateExpense", "Invalid date format. Use ISO 8601 format"))
  ELSE IF updates.type # UndefinedStr /\ isBlank(updates.type)
  THEN Outcome(expenses, seq.expenses, Thrown("updateExpense", "Type cannot be empty"))
  ELSE IF getExpenseById(id) = Null
  THEN Outcome(expenses, seq.expenses, Thrown("updateExpense", "Resource not found"))
  ELSE
    LET old == expenses[id]
        row == touch([old EXCEPT
                 !.type = setField(updates.type, updates.type, @),
                 !.amount = setField(updates.amount, bindNumber(updates.amount), @),
                 !.date = setField(updates.date, updates.date, @),
                 !.description = setField(updates.description,
                                          orNull(updates.description), @)], now)
    IN IF ~expenseRowAccepted(row)
       THEN Outcome(expenses, seq.expenses, Thrown("updateExpense", SqliteError))
       ELSE Outcome([expenses EXCEPT ![id] = row], seq.expenses,
                    Returned("updateExpense", [id |-> id, keys |-> keysOf(updates)],
                             mapRowToExpense(row)))

deleteExpense(id) ==
  Outcome([i \in DOMAIN expenses \ {id} |-> expenses[i]], seq.expenses,
          Returned("deleteExpense", [id |-> id], id \in DOMAIN expenses))

\* ---------------------------------------------------------- refill service
\* The thrown case is the value ThrowsDistance.
ThrowsDistance == [k |-> "throw", v |-> 0]

calculateEfficiency(amountSpent, distance) ==
  IF leqZero(distance) THEN ThrowsDistance ELSE jsDiv(amountSpent, distance)

mapRowToRefill(row) ==
  [id |-> row.id, amountSpent |-> row.amount_spent,
   distanceTraveled |-> row.distance_traveled, date |-> row.date,
   notes |-> orUndefined(row.notes), efficiency |-> row.efficiency,
   createdAt |-> row.created_at, updatedAt |-> row.updated_at]

getRefillById(id) ==
  IF id \in DOMAIN refills THEN mapRowToRefill(refills[id]) ELSE Null

\* INSERT INTO refills: NOT NULL and CHECK(... > 0) on the bound values; the
\* efficiency column takes NULL.
refillRowAccepted(row) ==
  /\ row.amount_spent.k # "null" /\ checkPositive(row.amount_spent)
  /\ row.distance_traveled.k # "null" /\ checkPositive(row.distance_traveled)
  /\ checkPositive(row.liters)
  /\ row.date.k # "null"

\* The values createRefill binds to its INSERT; the liters column is not in
\* the statement and takes its default, NULL.
refillValues(id, refill, efficiency, t) ==
  [id |-> id, amount_spent |-> bindNumber(refill.amountSpent), liters |-> Null,
   distance_traveled |-> bindNumber(refill.distanceTraveled),
   date |-> refill.date, notes |-> orNull(refill.notes),
   efficiency |-> bindNumber(efficiency),
   created_at |-> t, updated_at |-> t]

createRefill(refill) ==
  IF typeof(refill.amountSpent) # "number" \/ leqZero(refill.amountSpent)
  THEN Outcome(refills, seq.refills, Thrown("createRefill", "Amount must be a positive number"))
  ELSE IF typeof(refill.distanceTraveled) # "number" \/ leqZero(refill.distanceTraveled)
  THEN Outcome(refills, seq.refills, Thrown("createRefill", "Distance must be a positive number"))
  ELSE IF falsyDate(refill.date)
  THEN Outcome(refills, seq.refills, Thrown("createRefill", "Required field missing: date"))
  ELSE IF invalidDate(refill.date)
  THEN Outcome(refills, seq.refills,
               Thrown("createRefill", "Invalid date format. Use ISO 8601 format"))
  ELSE
    LET efficiency == calculateEfficiency(refill.amountSpent, refill.distanceTraveled)
        id == autoincrement(refills, seq.refills)
        row == refillValues(id, refill, efficiency, now)
    IN IF efficiency = ThrowsDistance
       THEN Outcome(refills, seq.refills,
                    Thrown("createRefill", "Distance must be a positive number"))
       ELSE IF ~refillRowAccepted(row)
       THEN Outcome(refills, seq.refills, Thrown("createRefill", SqliteError))
       ELSE Outcome([i \in DOMAIN refills \cup {id} |-> IF i = id THEN row ELSE refills[i]],
                    id, Returned("createRefill", NoVal, mapRowToRefill(row)))

updateRefill(id, updates) ==
  IF updates.amountSpent # Undefined
     /\ (typeof(updates.amountSpent) # "number" \/ leqZero(updates.amountSpent))
  THEN Outcome(refills, seq.refills, Thrown("updateRefill", "Amount must be a positive number"))
  ELSE IF updates.distanceTraveled # Undefined
          /\ (typeof(updates.distanceTraveled) # "number" \/ leqZero(updates.distanceTraveled))
  THEN Outcome(refills, seq.refills, Thrown("updateRefill", "Distance must be a positive number"))
  ELSE IF updates.date # UndefinedDate /\ invalidDate(updates.date)
  THEN Outcome(refills, seq.refills,
               Thrown("updateRefill", "Invalid date format. Use ISO 8601 format"))
  ELSE IF getRefillById(id) = Null
  THEN Outcome(refills, seq.refills, Thrown("updateRefill", "Resource not found"))
  ELSE
    LET existing == getRefillById(id)
        old == refills[id]
        finalAmountSpent == IF updates.amountSpent # Undefined
                            THEN updates.amountSpent ELSE existing.amountSpent
        finalDistance == IF updates.distanceTraveled # Undefined
                         THEN updates.distanceTraveled ELSE existing.distanceTraveled
        efficiency == calculateEfficiency(finalAmountSpent, finalDistance)
        row == touch([old EXCEPT
                 !.amount_spent = setField(updates.amountSpent,
                                           bindNumber(updates.amountSpent), @),
                 !.distance_traveled = setField(updates.distanceTraveled,
                                                bindNumber(updates.distanceTraveled), @),
                 !.date = setField(updates.date, updates.date, @),
                 !.notes = setField(updates.notes, orNull(updates.notes), @),
                 !.efficiency = bindNumber(efficiency)], now)
    IN IF efficiency = ThrowsDistance
       THEN Outcome(refills, seq.refills,
                    Thrown("updateRefill", "Distance must be a positive number"))
       ELSE IF ~refillRowAccepted(row)
       THEN Outcome(refills, seq.refills, Thrown("updateRefill", SqliteError))
       ELSE Outcome([refills EXCEPT ![id] = row], seq.refills,
                    Returned("updateRefill", [id |-> id, keys |-> keysOf(updates)],
                             mapRowToRefill(row)))

deleteRefill(id) ==
  Outcome([i \in DOMAIN refills \ {id} |-> refills[i]], seq.refills,
          Returned("deleteRefill", [id |-> id], id \in DOMAIN refills))


\* ------------------------------------------------------------------- reads
\* ORDER BY date ASC over a table: every order of the ids the statement may
\* return. Rows with equal dates come in an order SQLite does not fix.
orderByDate(rows) ==
  LET n == Cardinality(DOMAIN rows)
  IN {s \in [1..n -> DOMAIN rows] :
        /\ \A i, j \in 1..n : i # j => s[i] # s[j]
        /\ \A i, j \in 1..n : i < j => textLeq(rows[s[i]].date, rows[s[j]].date)}

getExpenses == {[i \in DOMAIN s |-> mapRowToExpense(expenses[s[i]])] : s \in orderByDate(expenses)}

getRefills == {[i \in DOMAIN s |-> mapRowToRefill(refills[s[i]])] : s \in orderByDate(refills)}

getTrips == {[i \in DOMAIN s |-> mapRowToTrip(trips[s[i]])] : s \in orderByDate(trips)}

\* SELECT COALESCE(SUM(distance), 0) FROM trips
RECURSIVE sumDistance(_, _)
sumDistance(rows, ids) ==
  IF ids = {} THEN Num(0)
  ELSE LET i == CHOOSE x \in ids : TRUE
       IN jsAdd(rows[i].distance, sumDistance(rows, ids \ {i}))

\* A faulty getTotalDistance: the refills' distances are added, as
\* getMileageOverTime does.
getTotalDistanceWithRefills ==
  jsAdd(sumDistance(trips, DOMAIN trips),
        sumDistance([id \in DOMAIN refills |-> [distance |-> refills[id].distance_traveled]],
                    DOMAIN refills))

getTotalDistance == sumDistance(trips, DOMAIN trips)

\* The projection of the trips alone, without the UNION ALL.
mileageRowsTripsOnly ==
  [key \in {"trips"} \X DOMAIN trips |->
     [date |-> trips[key[2]].date, distance |-> trips[key[2]].distance]]

\* SELECT date, distance FROM trips UNION ALL SELECT date, distance_traveled
\* FROM refills: the rows, keyed by table and id.
mileageRows ==
  [key \in ({"trips"} \X DOMAIN trips) \cup ({"refills"} \X DOMAIN refills) |->
     IF key[1] = "trips"
     THEN [date |-> trips[key[2]].date, distance |-> trips[key[2]].distance]
     ELSE [date |-> refills[key[2]].date, distance |-> refills[key[2]].distance_traveled]]

\* The loop over the ordered rows: cumulative += row.distance.
RECURSIVE cumulate(_, _)
cumulate(rows, cumulative) ==
  IF rows = <<>> THEN <<>>
  ELSE LET next == jsAdd(cumulative, Head(rows).distance)
       IN <<[date |-> Head(rows).date, cumulativeDistance |-> next]>>
          \o cumulate(Tail(rows), next)

getMileageOverTime ==
  {cumulate([i \in DOMAIN s |-> mileageRows[s[i]]], Num(0)) : s \in orderByDate(mileageRows)}


\* ------------------------------------------------------------ auth service
\* Seconds a session token lives in the runs whose clock reaches the expiry:
\* they are started with JWT_EXPIRES_IN = '<SessionLife>s'.
SessionLife == 2

True == [k |-> "boolean", v |-> "true"]
False == [k |-> "boolean", v |-> "false"]

\* a === b
strictEquals(a, b) == a.k = b.k /\ a.v = b.v

\* !x on a string or undefined
falsy(x) == x.k \in {"undefined", "null"} \/ (x.k = "string" /\ x.v = "")

\* jwt.sign(payload, secret, {expiresIn}) and what else can be presented as
\* a token: a text that is no JWT, and no text at all.
Jwt(key, exp, authenticated) ==
  [k |-> "jwt", key |-> key, exp |-> exp, authenticated |-> authenticated]
MalformedToken == [k |-> "garbage", key |-> "", exp |-> Undefined, authenticated |-> Undefined]
EmptyToken == [k |-> "empty", key |-> "", exp |-> Undefined, authenticated |-> Undefined]

ConfigError(name) == name \o " environment variable is not configured"

\* getJwtSecret(): throws when JWT_SECRET is unset or empty.
getJwtSecret(e) ==
  IF falsy(e.JWT_SECRET)
  THEN Thrown("getJwtSecret", ConfigError("JWT_SECRET"))
  ELSE Returned("getJwtSecret", NoVal, e.JWT_SECRET)

\* A faulty jwt.verify: a token is still taken at the second of its exp.
jwtVerifyLate(token, secret, clock) ==
  IF token.k # "jwt" THEN Thrown("jwt.verify", "jwt malformed")
  ELSE IF token.key # secret.v THEN Thrown("jwt.verify", "invalid signature")
  ELSE IF token.exp.k = "number" /\ clock > token.exp.v
  THEN Thrown("jwt.verify", "jwt expired")
  ELSE Returned("jwt.verify", NoVal, [authenticated |-> token.authenticated])

\* jwt.verify(token, secret) at a time: the decoded claims, or a throw for a
\* text that is no JWT, a signature made with another key, or an exp that
\* the clock has reached.
jwtVerify(token, secret, clock) ==
  IF token.k # "jwt" THEN Thrown("jwt.verify", "jwt malformed")
  ELSE IF token.key # secret.v THEN Thrown("jwt.verify", "invalid signature")
  ELSE IF token.exp.k = "number" /\ clock >= token.exp.v
  THEN Thrown("jwt.verify", "jwt expired")
  ELSE Returned("jwt.verify", NoVal, [authenticated |-> token.authenticated])

\* A faulty verifyPassword: without a configured password every candidate is
\* simply wrong.
verifyPasswordNoThrow(password) ==
  Returned("verifyPassword", NoVal,
           ~falsy(env.APP_PASSWORD) /\ strictEquals(password, env.APP_PASSWORD))

\* verifyPassword(password)
verifyPassword(password) ==
  IF falsy(env.APP_PASSWORD)
  THEN Thrown("verifyPassword", ConfigError("APP_PASSWORD"))
  ELSE Returned("verifyPassword", NoVal, strictEquals(password, env.APP_PASSWORD))

\* A text that is looked into is the sequence of its characters.
Digits == <<"0", "1", "2", "3", "4", "5", "6", "7", "8", "9">>
isDigit(c) == \E i \in 1..10 : Digits[i] = c
digitValue(c) == (CHOOSE i \in 1..10 : Digits[i] = c) - 1
allDigits(text) == \A i \in 1..Len(text) : isDigit(text[i])

\* parseInt(text, 10) of a text of digits.
RECURSIVE parseInt(_)
parseInt(text) ==
  IF text = <<>> THEN 0
  ELSE 10 * parseInt(SubSeq(text, 1, Len(text) - 1)) + digitValue(text[Len(text)])

\* The value of an environment variable that holds a duration.
Duration(text) == [k |-> "string", v |-> text]
UnsetDuration == [k |-> "undefined", v |-> <<>>]

\* process.env.JWT_EXPIRES_IN || '24h'
orDay(value) ==
  IF value.k = "undefined" \/ value.v = <<>> THEN <<"2", "4", "h">> ELSE value.v

getJwtExpiresIn(e) == orDay(e.JWT_EXPIRES_IN)

\* The ms package, which jsonwebtoken hands a string expiresIn to:
\* /^(-?(?:\d+)?\.?\d+) *(milliseconds?|msecs?|ms|seconds?|secs?|s|minutes?|
\* mins?|m|hours?|hrs?|h|days?|d|weeks?|w|years?|yrs?|y)?$/i. The unit words
\* of up to four letters are listed; a number without a unit is a number of
\* milliseconds. Letters are lowered where the texts offered have capitals.
lower(c) ==
  CASE c = "S" -> "s" [] c = "M" -> "m" [] c = "H" -> "h"
    [] c = "D" -> "d" [] c = "W" -> "w" [] c = "Y" -> "y" [] OTHER -> c

unitType(word) ==
  CASE word \in {<<>>, <<"m", "s">>, <<"m", "s", "e", "c">>} -> "ms"
    [] word \in {<<"s">>, <<"s", "e", "c">>, <<"s", "e", "c", "s">>} -> "s"
    [] word \in {<<"m">>, <<"m", "i", "n">>, <<"m", "i", "n", "s">>} -> "m"
    [] word \in {<<"h">>, <<"h", "r">>, <<"h", "r", "s">>, <<"h", "o", "u", "r">>} -> "h"
    [] word \in {<<"d">>, <<"d", "a", "y">>, <<"d", "a", "y", "s">>} -> "d"
    [] word \in {<<"w">>, <<"w", "e", "e", "k">>} -> "w"
    [] word \in {<<"y">>, <<"y", "r">>, <<"y", "r", "s">>, <<"y", "e", "a", "r">>} -> "y"
    [] OTHER -> "none"

RECURSIVE leadingDigits(_)
leadingDigits(text) ==
  IF text = <<>> \/ ~isDigit(Head(text)) THEN 0 ELSE 1 + leadingDigits(Tail(text))

RECURSIVE dropSpaces(_)
dropSpaces(text) ==
  IF text # <<>> /\ Head(text) = " " THEN dropSpaces(Tail(text)) ELSE text

\* What ms(text) matches: the number and the unit, type "none" where ms
\* returns undefined. (ms returns number * milliseconds of the unit; the two
\* are kept apart here, a year being more milliseconds than TLC counts.)
ms(text) ==
  LET negative == text # <<>> /\ Head(text) = "-"
      body == IF negative THEN Tail(text) ELSE text
      digits == leadingDigits(body)
      rest == dropSpaces(SubSeq(body, digits + 1, Len(body)))
      type == unitType([i \in 1..Len(rest) |-> lower(rest[i])])
  IN IF digits = 0 \/ type = "none"
     THEN [n |-> 0, type |-> "none"]
     ELSE [n |-> (IF negative THEN -1 ELSE 1) * parseInt(SubSeq(body, 1, digits)),
           type |-> type]

secondsPer(type) ==
  CASE type = "s" -> 1 [] type = "m" -> 60 [] type = "h" -> 3600
    [] type = "d" -> 86400 [] type = "w" -> 604800 [] type = "y" -> 31557600

\* jsonwebtoken's timespan(expiresIn, iat) for a string:
\* Math.floor(iat + ms(expiresIn) / 1000), undefined where ms is.
timespan(text, iat) ==
  LET span == ms(text)
  IN IF span.type = "none" THEN Undefined
     ELSE IF span.type = "ms" THEN Num(iat + (span.n \div 1000))
     ELSE Num(iat + span.n * secondsPer(span.type))

\* jwt.sign({authenticated: true, ...}, secret, {expiresIn}) at a time: iat
\* is the clock, exp the end of the timespan; an expiresIn that is no
\* timespan makes it throw.
jwtSign(secret, expiresIn, clock) ==
  LET exp == timespan(expiresIn, clock)
  IN IF exp = Undefined
     THEN Thrown("jwt.sign", "\"expiresIn\" should be a number of seconds or string representing a timespan")
     ELSE Returned("jwt.sign", NoVal, Jwt(secret.v, exp, True))

\* createSession() under an environment and at a time.
createSessionAt(e, clock) ==
  LET secret == getJwtSecret(e)
  IN IF secret.status = "throw" THEN Thrown("createSession", secret.msg)
     ELSE LET token == jwtSign(secret.val, getJwtExpiresIn(e), clock)
          IN IF token.status = "throw" THEN Thrown("createSession", token.msg)
             ELSE Returned("createSession", NoVal, token.val)

createSession == createSessionAt(env, now)

\* The body of validateSession's try block.
validateSessionTry(token, e, clock) ==
  LET secret == getJwtSecret(e)
  IN IF secret.status = "throw" THEN Thrown("validateSession", secret.msg)
     ELSE LET decoded == jwtVerify(token, secret.val, clock)
          IN IF decoded.status = "throw" THEN Thrown("validateSession", decoded.msg)
             ELSE Returned("validateSession", NoVal,
                           strictEquals(decoded.val.authenticated, True))

\* A faulty validateSession: the try block without its catch.
validateSessionUncaught(token, e, clock) == validateSessionTry(token, e, clock)

\* validateSession(token) under an environment and at a time: whatever the
\* try block throws is caught and turned into false.
validateSessionAt(token, e, clock) ==
  LET tried == validateSessionTry(token, e, clock)
  IN IF tried.status = "throw" THEN Returned("validateSession", NoVal, FALSE) ELSE tried

validateSession(token) == validateSessionAt(token, env, now)

\* ------------------------------------------------------------------ inputs
\* The two valid date texts whose text order and time order differ, and a
\* third after both.
DateA == IsoDate(1, 20, 0)
DateB == IsoDate(2, 0, 5)
DateC == IsoDate(3, 0, 0)

FiniteInputs == {Num(n) : n \in 1..MaxNum}
NumberInputs == {Num(n) : n \in -1..MaxNum} \cup {Infinity, NaN, NotANumber}
TextInputs == {UndefinedStr, Str(""), Str("a")}
TypeInputs == {UndefinedStr, Str(""), Str(" "), Str("fuel"), Str("toll")}
DateInputs == {DateA, DateB, DateC, EmptyDate, GarbageDate, UndefinedDate}
IdInputs == 1..(MaxInserts + 1)

\* What a specification offers its calls.
Profile(nums, dates, texts, types) ==
  [nums |-> nums, dates |-> dates, texts |-> texts, types |-> types]

\* ------------------------------------------------------------------ schema
\* The catalog of the database file: its tables with their columns and its
\* indexes with the table and column they are on.
Table(name, columns) ==
  [kind |-> "table", name |-> name, columns |-> columns, on |-> name]
Index(name, table, column) ==
  [kind |-> "index", name |-> name, columns |-> {column}, on |-> table]
EmptyCatalog == {}

\* CREATE TABLE IF NOT EXISTS / CREATE INDEX IF NOT EXISTS
createIfNotExists(catalog, object) ==
  IF \E o \in catalog : o.name = object.name THEN catalog ELSE catalog \cup {object}

\* DROP INDEX IF EXISTS name
dropIndex(catalog, name) == {o \in catalog : ~(o.kind = "index" /\ o.name = name)}

\* DROP TABLE IF EXISTS name: the table goes, and the indexes on it.
dropTable(catalog, name) == {o \in catalog : o.on # name}

ExpensesTable ==
  Table("expenses",
        {"id", "type", "amount", "date", "description", "created_at", "updated_at"})
RefillsTable ==
  Table("refills",
        {"id", "amount_spent", "liters", "distance_traveled", "date", "notes",
         "efficiency", "created_at", "updated_at"})
TripsTable ==
  Table("trips",
        {"id", "distance", "date", "purpose", "notes", "created_at", "updated_at"})

\* The statements of initializeSchema, in order.
SchemaStatements ==
  <<ExpensesTable, RefillsTable, TripsTable,
    Index("idx_expenses_date", "expenses", "date"),
    Index("idx_refills_date", "refills", "date"),
    Index("idx_trips_date", "trips", "date")>>

RECURSIVE execCreate(_, _)
execCreate(catalog, statements) ==
  IF statements = <<>> THEN catalog
  ELSE execCreate(createIfNotExists(catalog, Head(statements)), Tail(statements))

initializeSchema(catalog) == execCreate(catalog, SchemaStatements)

\* resetDatabase on the catalog: the three indexes are dropped, then the
\* three tables, then initializeSchema runs.
resetDatabase(catalog) ==
  LET noIndexes ==
        dropIndex(dropIndex(dropIndex(catalog, "idx_expenses_date"),
                            "idx_refills_date"), "idx_trips_date")
      noTables == dropTable(dropTable(dropTable(noIndexes, "expenses"), "refills"), "trips")
  IN initializeSchema(noTables)

\* ----------------------------------------------------------------- actions
\* A response of a route handler: the status, the error text of its body
\* ("" on success), the functions the handler called, in order, and the
\* token of the request (for the login route: the token it set).
Response(route, status, error, calls, token) ==
  [route |-> route, status |-> status, error |-> error, calls |-> calls, token |-> token]
NoResponse == Response("", 0, "", <<>>, EmptyToken)

\* The cookie jar without the sessionId cookie.
NoCookie == [sessionId |-> EmptyToken, maxAge |-> 0]

\* What a request handler holds of the entity services before it has called
\* one.
NoCall == Returned("init", NoVal, NoVal)

Inserts == seq.expenses + seq.refills + seq.trips

\* Requests the server can have in flight at once.
RequestSlots == 1..MaxRequests

\* A slot of the event loop without a request, and the event loop with none.
NoRequest ==
  [pc |-> "idle", id |-> NaN, updates |-> NoVal, token |-> EmptyToken,
   existing |-> NoVal, status |-> 0]
NoRequests == [running |-> 0, requests |-> [r \in RequestSlots |-> NoRequest]]

\* The process started with an environment: empty tables, no session.
Started(e) ==
  /\ expenses = <<>>
  /\ refills = <<>>
  /\ trips = <<>>
  /\ seq = [expenses |-> 0, refills |-> 0, trips |-> 0]
  /\ now = 0
  /\ ret = Returned("init", NoVal, NoVal)
  /\ env = e
  /\ cookies = NoCookie
  /\ issued = {}
  /\ response = NoResponse
  /\ schema = initializeSchema(EmptyCatalog)
  /\ loop = NoRequests

Init ==
  Started([APP_PASSWORD |-> Str("pw"), JWT_SECRET |-> Str("k1"),
           JWT_EXPIRES_IN |-> Duration(<<Digits[SessionLife + 1], "s">>)])

\* A faulty schema: refills reference expenses by id with ON DELETE CASCADE,
\* so the refill of the same id goes with a deleted expense.
ExpenseCallCascades(o) ==
  /\ expenses' = o.rows
  /\ seq' = [seq EXCEPT !.expenses = o.seq]
  /\ ret' = o.ret
  /\ refills' = IF o.ret.op = "deleteExpense"
                THEN [id \in DOMAIN refills \ {o.ret.arg.id} |-> refills[id]]
                ELSE refills
  /\ UNCHANGED <<trips, now, schema, loop>>
  /\ UNCHANGED web

\* A call of the expense service: its statements name the expenses table
\* alone, and no table references another.
ExpenseCall(o) ==
  /\ expenses' = o.rows
  /\ seq' = [seq EXCEPT !.expenses = o.seq]
  /\ ret' = o.ret
  /\ UNCHANGED <<refills, trips, now, schema, loop>>
  /\ UNCHANGED web

RefillCall(o) ==
  /\ refills' = o.rows
  /\ seq' = [seq EXCEPT !.refills = o.seq]
  /\ ret' = o.ret
  /\ UNCHANGED <<expenses, trips, now, schema, loop>>
  /\ UNCHANGED web

TripCall(o) ==
  /\ trips' = o.rows
  /\ seq' = [seq EXCEPT !.trips = o.seq]
  /\ ret' = o.ret
  /\ UNCHANGED <<expenses, refills, now, schema, loop>>
  /\ UNCHANGED web

ExpenseInputs(P) ==
  [type : P.types, amount : P.nums, date : P.dates, description : P.texts]
ExpensePatches(P) ==
  [type : P.types \cup {UndefinedStr}, amount : P.nums \cup {Undefined},
   date : P.dates \cup {UndefinedDate}, description : P.texts \cup {UndefinedStr}]
RefillInputs(P) ==
  [amountSpent : P.nums, distanceTraveled : P.nums, date : P.dates, notes : P.texts]
RefillPatches(P) ==
  [amountSpent : P.nums \cup {Undefined}, distanceTraveled : P.nums \cup {Undefined},
   date : P.dates \cup {UndefinedDate}, notes : P.texts \cup {UndefinedStr}]
TripInputs(P) ==
  [distance : P.nums, date : P.dates, purpose : P.texts, notes : P.texts]
TripPatches(P) ==
  [distance : P.nums \cup {Undefined}, date : P.dates \cup {UndefinedDate},
   purpose : P.texts \cup {UndefinedStr}, notes : P.texts \cup {UndefinedStr}]

CreateExpense(P) ==
  /\ Inserts < MaxInserts
  /\ \E expense \in ExpenseInputs(P) : ExpenseCall(createExpense(expense))

UpdateExpense(P) ==
  \E id \in IdInputs, updates \in ExpensePatches(P) : ExpenseCall(updateExpense(id, updates))

DeleteExpense == \E id \in IdInputs : ExpenseCall(deleteExpense(id))

CreateRefill(P) ==
  /\ Inserts < MaxInserts
  /\ \E refill \in RefillInputs(P) : RefillCall(createRefill(refill))

UpdateRefill(P) ==
  \E id \in IdInputs, updates \in RefillPatches(P) : RefillCall(updateRefill(id, updates))

DeleteRefill == \E id \in IdInputs : RefillCall(deleteRefill(id))

CreateTrip(P) ==
  /\ Inserts < MaxInserts
  /\ \E trip \in TripInputs(P) : TripCall(createTrip(trip))

UpdateTrip(P) ==
  \E id \in IdInputs, updates \in TripPatches(P) : TripCall(updateTrip(id, updates))

DeleteTrip == \E id \in IdInputs : TripCall(deleteTrip(id))

\* A read: the tables stay, the caller gets one of the possible results.
Read(op, results) ==
  /\ \E val \in results : ret' = Returned(op, NoVal, val)
  /\ UNCHANGED <<expenses, refills, trips, seq, now, schema, loop>>
  /\ UNCHANGED web

GetExpenses == Read("getExpenses", getExpenses)
GetRefills == Read("getRefills", getRefills)
GetTrips == Read("getTrips", getTrips)
GetTotalDistance == Read("getTotalDistance", {getTotalDistance})
GetMileageOverTime == Read("getMileageOverTime", getMileageOverTime)

\* The wall clock moves on between calls.
Tick ==
  /\ now < MaxClock
  /\ now' = now + 1
  /\ UNCHANGED <<expenses, refills, trips, seq, ret, schema, loop>>
  /\ UNCHANGED web

ExpenseService(P) == CreateExpense(P) \/ UpdateExpense(P) \/ DeleteExpense
RefillService(P) == CreateRefill(P) \/ UpdateRefill(P) \/ DeleteRefill
TripService(P) == CreateTrip(P) \/ UpdateTrip(P) \/ DeleteTrip
Services(P) == ExpenseService(P) \/ RefillService(P) \/ TripService(P)

\* createRefill called as POST /api/refills calls it, with the liters of the
\* request body in its argument.
CreateRefillWithLiters(P, amounts) ==
  /\ Inserts < MaxInserts
  /\ \E refill \in RefillInputs(P), liters \in amounts :
       LET o == createRefill([amountSpent |-> refill.amountSpent, liters |-> liters,
                              distanceTraveled |-> refill.distanceTraveled,
                              date |-> refill.date, notes |-> refill.notes])
       IN RefillCall([o EXCEPT !.ret.arg = [liters |-> liters]])

\* A read by id: byId is what the function returns for each id.
ReadById(op, byId) ==
  /\ \E id \in IdInputs : ret' = Returned(op, [id |-> id], byId[id])
  /\ UNCHANGED <<expenses, refills, trips, seq, now, schema, loop>>
  /\ UNCHANGED web

GetExpenseById == ReadById("getExpenseById", [id \in IdInputs |-> getExpenseById(id)])
GetRefillById == ReadById("getRefillById", [id \in IdInputs |-> getRefillById(id)])
GetTripById == ReadById("getTripById", [id \in IdInputs |-> getTripById(id)])

\* resetDatabase(): the tables are dropped with their rows and created
\* again; a dropped table's AUTOINCREMENT counter goes with it.
ResetDatabase ==
  /\ expenses' = <<>>
  /\ refills' = <<>>
  /\ trips' = <<>>
  /\ seq' = [expenses |-> 0, refills |-> 0, trips |-> 0]
  /\ schema' = resetDatabase(schema)
  /\ ret' = Returned("resetDatabase", NoVal, NoVal)
  /\ UNCHANGED <<now, loop>>
  /\ UNCHANGED web

\* --------------------------------------------------------- session actions
\* Last tick of the wall clock where sessions are followed to their expiry.
MaxSessionClock == 3
\* Logins that are granted a token over a run.
MaxSessions == 2

PasswordConfigs == {UndefinedStr, Str(""), Str("pw")}
SecretConfigs == {UndefinedStr, Str("k1"), Str("k2")}
PasswordInputs == {Undefined, Str(""), Str("pw"), Str("PW"), Num(1)}

\* Tokens nobody was issued: no token, a text that is no JWT, tokens signed
\* with a key the server never had, and tokens signed with one of its keys
\* that claim something else than authenticated: true, or carry no exp.
ForgedTokens ==
  {EmptyToken, MalformedToken, Jwt("k3", Undefined, True)}
  \cup {Jwt(key, Undefined, claim) : key \in {"k1", "k2"}, claim \in {True, False, Str("true"), Undefined}}
  \cup {Jwt("k1", Num(1), True)}

TokenInputs == ForgedTokens \cup issued \cup {cookies.sessionId}

\* The tokens a request is seen to carry: the browser's cookie, a token
\* issued earlier and kept by its holder, or one of two forgeries.
PresentedTokens ==
  issued \cup {cookies.sessionId, MalformedToken, Jwt("k3", Undefined, True)}

\* The process is started again with another environment.
Restart(passwords, secrets) ==
  /\ \E password \in passwords, secret \in secrets :
       env' = [env EXCEPT !.APP_PASSWORD = password, !.JWT_SECRET = secret]
  /\ UNCHANGED <<expenses, refills, trips, seq, now, ret, cookies, issued, response, schema, loop>>

SessionTick ==
  /\ now < MaxSessionClock
  /\ now' = now + 1
  /\ UNCHANGED <<expenses, refills, trips, seq, ret, schema, loop>>
  /\ UNCHANGED web

\* A faulty parseExpirationToSeconds: minutes are taken for seconds.
parseExpirationMinutesAsSeconds(expiresIn) ==
  LET length == Len(expiresIn)
      digits == SubSeq(expiresIn, 1, length - 1)
  IN IF length < 2 \/ ~allDigits(digits) \/ expiresIn[length] \notin {"s", "m", "h", "d"}
     THEN 60 * 60 * 24
     ELSE LET value == parseInt(digits)
              unit == expiresIn[length]
          IN CASE unit = "s" -> value
               [] unit = "m" -> value
               [] unit = "h" -> value * 60 * 60
               [] unit = "d" -> value * 60 * 60 * 24

\* parseExpirationToSeconds(expiresIn): /^(\d+)([smhd])$/ or a day.
parseExpirationToSeconds(expiresIn) ==
  LET length == Len(expiresIn)
      digits == SubSeq(expiresIn, 1, length - 1)
  IN IF length < 2 \/ ~allDigits(digits) \/ expiresIn[length] \notin {"s", "m", "h", "d"}
     THEN 60 * 60 * 24
     ELSE LET value == parseInt(digits)
              unit == expiresIn[length]
          IN CASE unit = "s" -> value
               [] unit = "m" -> value * 60
               [] unit = "h" -> value * 60 * 60
               [] unit = "d" -> value * 60 * 60 * 24

\* A faulty login: the result of verifyPassword is not looked at.
loginResponseUnchecked(password) ==
  IF falsy(password)
  THEN Response("login", 400, "Password is required", <<>>, EmptyToken)
  ELSE LET isValid == verifyPassword(password)
       IN IF isValid.status = "throw"
          THEN Response("login", 500, "Authentication service not configured",
                        <<"verifyPassword">>, EmptyToken)
          ELSE LET token == createSession
               IN IF token.status = "throw"
                  THEN Response("login", 500, "An error occurred during login",
                                <<"verifyPassword", "createSession">>, EmptyToken)
                  ELSE Response("login", 200, "",
                                <<"verifyPassword", "createSession", "cookies.set">>,
                                token.val)

\* POST /api/auth/login
loginResponse(password) ==
  IF falsy(password)
  THEN Response("login", 400, "Password is required", <<>>, EmptyToken)
  ELSE LET isValid == verifyPassword(password)
       IN IF isValid.status = "throw"
          THEN Response("login", 500, "Authentication service not configured",
                        <<"verifyPassword">>, EmptyToken)
          ELSE IF ~isValid.val
          THEN Response("login", 401, "Invalid password", <<"verifyPassword">>, EmptyToken)
          ELSE LET token == createSession
               IN IF token.status = "throw"
                  THEN Response("login", 500, "An error occurred during login",
                                <<"verifyPassword", "createSession">>, EmptyToken)
                  ELSE Response("login", 200, "",
                                <<"verifyPassword", "createSession", "cookies.set">>,
                                token.val)

Login ==
  /\ \E password \in PasswordInputs :
       /\ response' = loginResponse(password)
       /\ response'.status = 200 => Cardinality(issued) < MaxSessions
  /\ cookies' = IF response'.status = 200
                THEN [sessionId |-> response'.token,
                      maxAge |-> parseExpirationToSeconds(orDay(env.JWT_EXPIRES_IN))]
                ELSE cookies
  /\ issued' = IF response'.status = 200 THEN issued \cup {response'.token} ELSE issued
  /\ ret' = NoCall
  /\ UNCHANGED <<expenses, refills, trips, seq, now, env, schema, loop>>

\* A faulty logout: every token signed so far is revoked by changing the key.
LogoutRevokes ==
  /\ response' = Response("logout", 200, "", <<"cookies.delete">>, cookies.sessionId)
  /\ cookies' = NoCookie
  /\ env' = [env EXCEPT !.JWT_SECRET = Str("revoked")]
  /\ ret' = NoCall
  /\ UNCHANGED <<expenses, refills, trips, seq, now, issued, schema, loop>>

\* POST /api/auth/logout
Logout ==
  /\ response' = Response("logout", 200, "", <<"cookies.delete">>, cookies.sessionId)
  /\ cookies' = NoCookie
  /\ ret' = NoCall
  /\ UNCHANGED <<expenses, refills, trips, seq, now, env, issued, schema, loop>>

\* deleteSession(token): nothing is kept on the server to delete.
DeleteSession ==
  /\ \E token \in PresentedTokens :
       ret' = Returned("deleteSession", [token |-> token], NoVal)
  /\ UNCHANGED <<expenses, refills, trips, seq, now, schema, loop>>
  /\ UNCHANGED web

\* createSession()
CreateSession ==
  /\ ret' = [createSession EXCEPT !.arg = [expiresIn |-> env.JWT_EXPIRES_IN]]
  /\ ret'.status = "ok" => Cardinality(issued) < MaxSessions
  /\ issued' = IF ret'.status = "ok" THEN issued \cup {ret'.val} ELSE issued
  /\ UNCHANGED <<expenses, refills, trips, seq, now, env, cookies, response, schema, loop>>

\* validateSession(token)
ValidateSession ==
  /\ \E token \in PresentedTokens :
       ret' = [validateSession(token) EXCEPT !.arg = [token |-> token]]
  /\ UNCHANGED <<expenses, refills, trips, seq, now, schema, loop>>
  /\ UNCHANGED web

\* verifyPassword(password)
VerifyPassword ==
  /\ \E password \in PasswordInputs :
       ret' = [verifyPassword(password) EXCEPT !.arg = [password |-> password]]
  /\ UNCHANGED <<expenses, refills, trips, seq, now, schema, loop>>
  /\ UNCHANGED web

\* ----------------------------------------------------------- route handlers
\* A faulty validateApiRequest: a request without the cookie is let through.
validateApiRequestNoCookieOk(token) ==
  IF token.k = "empty"
  THEN [ok |-> TRUE, error |-> "", calls |-> <<>>]
  ELSE IF ~validateSession(token).val
  THEN [ok |-> FALSE, error |-> "Unauthorized: Invalid or expired session",
        calls |-> <<"validateSession">>]
  ELSE [ok |-> TRUE, error |-> "", calls |-> <<"validateSession">>]

\* validateApiRequest(request), on the value of the request's sessionId
\* cookie: true, or the error of the 401 response.
validateApiRequest(token) ==
  IF token.k = "empty"
  THEN [ok |-> FALSE, error |-> "Unauthorized: No session found", calls |-> <<>>]
  ELSE IF ~validateSession(token).val
  THEN [ok |-> FALSE, error |-> "Unauthorized: Invalid or expired session",
        calls |-> <<"validateSession">>]
  ELSE [ok |-> TRUE, error |-> "", calls |-> <<"validateSession">>]

\* error.message.includes(part), on the messages the services throw.
includes(message, part) ==
  CASE part = "Required field missing" ->
         message \in {"Required field missing: type", "Required field missing: date"}
    [] part = "must be a positive number" ->
         message \in {"Amount must be a positive number", "Distance must be a positive number"}
    [] part = "Invalid date format" -> message = "Invalid date format. Use ISO 8601 format"
    [] part = "cannot be empty" -> message = "Type cannot be empty"
    [] OTHER -> FALSE

\* The catch block of a POST handler.
createCatch(message, entity) ==
  IF \/ includes(message, "Required field missing")
     \/ includes(message, "must be a positive number")
     \/ includes(message, "Invalid date format")
  THEN [status |-> 400, error |-> message]
  ELSE [status |-> 500, error |-> "Failed to create " \o entity]

\* A faulty catch block of a PUT handler: an error it does not know is sent
\* back as it was thrown.
updateCatchLeaks(message, entity) ==
  IF message = "Resource not found"
  THEN [status |-> 404, error |-> "Resource not found"]
  ELSE IF \/ includes(message, "must be a positive number")
          \/ includes(message, "Invalid date format")
          \/ (entity = "expense" /\ includes(message, "cannot be empty"))
  THEN [status |-> 400, error |-> message]
  ELSE [status |-> 500, error |-> message]

\* The catch block of a PUT handler; the expense handler alone looks for
\* 'cannot be empty'.
updateCatch(message, entity) ==
  IF message = "Resource not found"
  THEN [status |-> 404, error |-> "Resource not found"]
  ELSE IF \/ includes(message, "must be a positive number")
          \/ includes(message, "Invalid date format")
          \/ (entity = "expense" /\ includes(message, "cannot be empty"))
  THEN [status |-> 400, error |-> message]
  ELSE [status |-> 500, error |-> "Failed to update " \o entity]

\* What a handler answers after the service call o.
served(route, token, o, good, caught) ==
  LET calls == <<"validateSession", o.ret.op>>
  IN IF o.ret.status = "ok"
     THEN Response(route, good, "", calls, token)
     ELSE Response(route, caught.status, caught.error, calls, token)

\* A handler answers without calling a service.
Answer(r) ==
  /\ response' = r
  /\ ret' = NoCall
  /\ UNCHANGED <<expenses, refills, trips, seq, now, env, cookies, issued, schema, loop>>

\* A handler calls a function of the service of a table and answers.
Serve(table, o, r) ==
  /\ expenses' = IF table = "expenses" THEN o.rows ELSE expenses
  /\ refills' = IF table = "refills" THEN o.rows ELSE refills
  /\ trips' = IF table = "trips" THEN o.rows ELSE trips
  /\ seq' = [seq EXCEPT ![table] = o.seq]
  /\ ret' = o.ret
  /\ response' = r
  /\ UNCHANGED <<now, env, cookies, issued, schema, loop>>

\* The first lines of every handler: the request goes on only if
\* validateApiRequest has returned true.
Protected(route, token, handler) ==
  LET sessionValidation == validateApiRequest(token)
  IN IF ~sessionValidation.ok
     THEN Answer(Response(route, 401, sessionValidation.error,
                          sessionValidation.calls, token))
     ELSE handler

\* GET of a list.
GetRoute(route, token, op, results) ==
  Protected(route, token,
    /\ \E val \in results : ret' = Returned(op, NoVal, val)
    /\ response' = Response(route, 200, "", <<"validateSession", op>>, token)
    /\ UNCHANGED <<expenses, refills, trips, seq, now, env, cookies, issued, schema, loop>>)

\* POST: the handler's own look at the required fields, then the create.
PostRoute(route, token, missing, table, entity, o) ==
  Protected(route, token,
    IF missing # ""
    THEN Answer(Response(route, 400, "Required field missing: " \o missing,
                         <<"validateSession">>, token))
    ELSE Serve(table, o, served(route, token, o, 201, createCatch(o.ret.msg, entity))))

\* parseInt(id, 10) of the path parameter: a number or NaN.
IdParams == {Num(id) : id \in IdInputs} \cup {NaN}

\* PUT: the id is parsed, then the update.
PutRoute(route, token, id, table, entity, o) ==
  Protected(route, token,
    IF id = NaN
    THEN Answer(Response(route, 400, "Invalid " \o entity \o " ID",
                         <<"validateSession">>, token))
    ELSE Serve(table, o, served(route, token, o, 200, updateCatch(o.ret.msg, entity))))

\* DELETE: the id is parsed, then the delete; false is 404.
DeleteRoute(route, token, id, table, entity, o) ==
  Protected(route, token,
    IF id = NaN
    THEN Answer(Response(route, 400, "Invalid " \o entity \o " ID",
                         <<"validateSession">>, token))
    ELSE Serve(table, o,
               IF o.ret.val
               THEN Response(route, 200, "", <<"validateSession", o.ret.op>>, token)
               ELSE Response(route, 404, "Resource not found",
                             <<"validateSession", o.ret.op>>, token)))

missingExpense(body) ==
  IF falsy(body.type) THEN "type"
  ELSE IF body.amount.k \in {"undefined", "null"} THEN "amount"
  ELSE IF falsyDate(body.date) THEN "date" ELSE ""

missingRefill(body) ==
  IF body.amountSpent.k \in {"undefined", "null"} THEN "amountSpent"
  ELSE IF body.distanceTraveled.k \in {"undefined", "null"} THEN "distanceTraveled"
  ELSE IF falsyDate(body.date) THEN "date" ELSE ""

missingTrip(body) ==
  IF body.distance.k \in {"undefined", "null"} THEN "distance"
  ELSE IF falsyDate(body.date) THEN "date" ELSE ""

\* The sessionId cookie a request may carry: the browser's cookie, a token
\* issued earlier (kept by the client after logout), a string that is not a
\* token, and a token of this server that expired before the clock started.
RequestTokens ==
  issued \cup {cookies.sessionId, MalformedToken, Jwt("k1", Num(0), True)}

ExpensesGET ==
  \E token \in RequestTokens :
     GetRoute("GET /api/expenses", token, "getExpenses", getExpenses)
ExpensesPOST(P) ==
  /\ Inserts < MaxInserts
  /\ \E token \in RequestTokens, body \in ExpenseInputs(P) :
     PostRoute("POST /api/expenses", token, missingExpense(body),
               "expenses", "expense", createExpense(body))
ExpensesPUT(P) ==
  \E token \in RequestTokens, id \in IdParams, updates \in ExpensePatches(P) :
     PutRoute("PUT /api/expenses/[id]", token, id,
              "expenses", "expense", updateExpense(id.v, updates))
ExpensesDELETE ==
  \E token \in RequestTokens, id \in IdParams :
     DeleteRoute("DELETE /api/expenses/[id]", token, id,
                 "expenses", "expense", deleteExpense(id.v))

RefillsGET ==
  \E token \in RequestTokens :
     GetRoute("GET /api/refills", token, "getRefills", getRefills)
RefillsPOST(P) ==
  /\ Inserts < MaxInserts
  /\ \E token \in RequestTokens, body \in RefillInputs(P) :
     PostRoute("POST /api/refills", token, missingRefill(body),
               "refills", "refill", createRefill(body))
RefillsPUT(P) ==
  \E token \in RequestTokens, id \in IdParams, updates \in RefillPatches(P) :
     PutRoute("PUT /api/refills/[id]", token, id,
              "refills", "refill", updateRefill(id.v, updates))
RefillsDELETE ==
  \E token \in RequestTokens, id \in IdParams :
     DeleteRoute("DELETE /api/refills/[id]", token, id,
                 "refills", "refill", deleteRefill(id.v))

TripsGET ==
  \E token \in RequestTokens :
     GetRoute("GET /api/trips", token, "getTrips", getTrips)
TripsPOST(P) ==
  /\ Inserts < MaxInserts
  /\ \E token \in RequestTokens, body \in TripInputs(P) :
     PostRoute("POST /api/trips", token, missingTrip(body),
               "trips", "trip", createTrip(body))
TripsPUT(P) ==
  \E token \in RequestTokens, id \in IdParams, updates \in TripPatches(P) :
     PutRoute("PUT /api/trips/[id]", token, id,
              "trips", "trip", updateTrip(id.v, updates))
TripsDELETE ==
  \E token \in RequestTokens, id \in IdParams :
     DeleteRoute("DELETE /api/trips/[id]", token, id,
                 "trips", "trip", deleteTrip(id.v))

MileageGET ==
  \E token \in RequestTokens :
     GetRoute("GET /api/trips/mileage", token, "getMileageOverTime", getMileageOverTime)

Routes(P) ==
  \/ ExpensesGET \/ ExpensesPOST(P) \/ ExpensesPUT(P) \/ ExpensesDELETE
  \/ RefillsGET \/ RefillsPOST(P) \/ RefillsPUT(P) \/ RefillsDELETE
  \/ TripsGET \/ TripsPOST(P) \/ TripsPUT(P) \/ TripsDELETE
  \/ MileageGET

\* --------------------------------------------------------------- middleware
\* A path is the sequence of its characters.
LoginPath == <<"/", "l", "o", "g", "i", "n">>
ApiAuthPath == <<"/", "a", "p", "i", "/", "a", "u", "t", "h">>

\* text.startsWith(prefix)
startsWith(text, prefix) ==
  Len(text) >= Len(prefix) /\ SubSeq(text, 1, Len(prefix)) = prefix

\* request.cookies.get('sessionId')?.value: undefined without the cookie.
cookieValue(token) == IF token = EmptyToken THEN Undefined ELSE token

\* NextResponse.next() and NextResponse.redirect(new URL(path, request.url))
PassedOn == [status |-> 200, location |-> <<>>]
RedirectTo(path) == [status |-> 307, location |-> path]

\* A faulty middleware: the cookie's value is validated as the routes do.
middlewareValidating(pathname, sessionId) ==
  IF startsWith(pathname, LoginPath) \/ startsWith(pathname, ApiAuthPath)
  THEN Returned("middleware", NoVal, PassedOn)
  ELSE IF falsy(sessionId) \/ sessionId.k # "jwt" \/ ~validateSession(sessionId).val
  THEN Returned("middleware", NoVal, RedirectTo(LoginPath))
  ELSE Returned("middleware", NoVal, PassedOn)

\* middleware(request), on the request's path and sessionId cookie.
middleware(pathname, sessionId) ==
  IF startsWith(pathname, LoginPath) \/ startsWith(pathname, ApiAuthPath)
  THEN Returned("middleware", NoVal, PassedOn)
  ELSE IF falsy(sessionId)
  THEN Returned("middleware", NoVal, RedirectTo(LoginPath))
  ELSE Returned("middleware", NoVal, PassedOn)

\* The paths requested: /, /login, /api/auth, /api, /expenses, /log, each
\* alone and followed by another or by a letter.
PathStems ==
  {<<"/">>, LoginPath, ApiAuthPath, <<"/", "a", "p", "i">>,
   <<"/", "e", "x", "p", "e", "n", "s", "e", "s">>, <<"/", "l", "o", "g">>}
PathInputs == PathStems \cup {a \o b : a \in PathStems, b \in PathStems \cup {<<"x">>}}

\* The sessionId cookies requests come with: none, an empty one, a text that
\* is no token, and the tokens a route handler may be offered.
CookieInputs ==
  {Undefined, Str(""), Str("some-session-id")} \cup {cookieValue(token) : token \in RequestTokens}

Middleware ==
  /\ \E pathname \in PathInputs, sessionId \in CookieInputs :
       ret' = [middleware(pathname, sessionId)
                 EXCEPT !.arg = [pathname |-> pathname, sessionId |-> sessionId]]
  /\ UNCHANGED <<expenses, refills, trips, seq, now, schema, loop>>
  /\ UNCHANGED web

\* --------------------------------------------------------------- event loop
\* Several PUT /api/refills/[id] requests in flight in the one Node.js
\* process. A request's pc is where its handler stands: at one of its three
\* awaits ("validate", "params", "body"), or inside updateRefill after the
\* existence check ("checked") or after the UPDATE ("written"). JavaScript
\* runs a handler from one await to the next without giving way: running is
\* the slot whose handler holds the thread, 0 when every handler is waiting.

\* A faulty handler: updateRefill is async and awaits between its existence
\* check and its UPDATE.
AwaitPointsInService == {"idle", "validate", "params", "body", "checked", "done"}

\* Where a handler gives the thread away: before it starts, at
\* await validateApiRequest(request), await params and await request.json(),
\* and when it has returned. updateRefill contains no await.
AwaitPoints == {"idle", "validate", "params", "body", "done"}

\* The [id] of the requests: a stored row, a missing one, not a number.
PutIds == {Num(1), Num(MaxInserts + 1), NaN}

\* The handler of slot r moves on: q is the slot afterwards.
Proceed(r, q) ==
  /\ loop.running \in {0, r}
  /\ loop' = [running |-> IF q.pc \in AwaitPoints THEN 0 ELSE r,
              requests |-> [loop.requests EXCEPT ![r] = q]]

\* A request arrives, with a token the server has signed or with none.
PutArrives(r, P) ==
  /\ loop.requests[r].pc = "idle"
  /\ \E id \in PutIds, updates \in RefillPatches(P), token \in issued \cup {EmptyToken} :
       Proceed(r, [NoRequest EXCEPT !.pc = "validate", !.id = id,
                                    !.updates = updates, !.token = token])
  /\ UNCHANGED <<expenses, refills, trips, seq, now, ret, schema>>
  /\ UNCHANGED web

\* await validateApiRequest(request): 401, or on to await params.
PutValidates(r) ==
  LET q == loop.requests[r]
  IN /\ q.pc = "validate"
     /\ IF validateApiRequest(q.token).ok
        THEN Proceed(r, [q EXCEPT !.pc = "params"])
        ELSE Proceed(r, [q EXCEPT !.pc = "done", !.status = 401])
     /\ UNCHANGED <<expenses, refills, trips, seq, now, ret, schema>>
     /\ UNCHANGED web

\* await params; parseInt(id, 10): 400 if it is NaN, or on to
\* await request.json().
PutReadsParams(r) ==
  LET q == loop.requests[r]
  IN /\ q.pc = "params"
     /\ IF q.id = NaN
        THEN Proceed(r, [q EXCEPT !.pc = "done", !.status = 400])
        ELSE Proceed(r, [q EXCEPT !.pc = "body"])
     /\ UNCHANGED <<expenses, refills, trips, seq, now, ret, schema>>
     /\ UNCHANGED web

\* await request.json() has the body; updateRefill starts: it checks the
\* patch and reads the row (const existing = getRefillById(id)).
PutChecks(r) ==
  LET q == loop.requests[r]
      o == updateRefill(q.id.v, q.updates)
      caught == updateCatch(o.ret.msg, "refill")
  IN /\ q.pc = "body"
     /\ IF o.ret.status = "throw"
        THEN /\ Proceed(r, [q EXCEPT !.pc = "done", !.status = caught.status])
             /\ ret' = o.ret
        ELSE /\ Proceed(r, [q EXCEPT !.pc = "checked", !.existing = getRefillById(q.id.v)])
             /\ ret' = ret
     /\ UNCHANGED <<expenses, refills, trips, seq, now, schema>>
     /\ UNCHANGED web

\* The row after UPDATE refills SET ... WHERE id = ?, with the efficiency
\* worked out from the patch and the row read as existing.
updatedRefillRow(old, existing, updates, t) ==
  LET finalAmountSpent == IF updates.amountSpent # Undefined
                          THEN updates.amountSpent ELSE existing.amountSpent
      finalDistance == IF updates.distanceTraveled # Undefined
                       THEN updates.distanceTraveled ELSE existing.distanceTraveled
      efficiency == calculateEfficiency(finalAmountSpent, finalDistance)
  IN touch([old EXCEPT
       !.amount_spent = setField(updates.amountSpent, bindNumber(updates.amountSpent), @),
       !.distance_traveled = setField(updates.distanceTraveled,
                                      bindNumber(updates.distanceTraveled), @),
       !.date = setField(updates.date, updates.date, @),
       !.notes = setField(updates.notes, orNull(updates.notes), @),
       !.efficiency = bindNumber(efficiency)], t)

\* stmt.run(...values): the UPDATE, on the row as it is stored now.
PutWrites(r) ==
  LET q == loop.requests[r]
  IN /\ q.pc = "checked"
     /\ Proceed(r, [q EXCEPT !.pc = "written"])
     /\ refills' = IF q.id.v \in DOMAIN refills
                   THEN [refills EXCEPT
                           ![q.id.v] = updatedRefillRow(@, q.existing, q.updates, now)]
                   ELSE refills
     /\ UNCHANGED <<expenses, trips, seq, now, ret, schema>>
     /\ UNCHANGED web

\* const updated = getRefillById(id); the handler answers.
PutAnswers(r) ==
  LET q == loop.requests[r]
      updated == getRefillById(q.id.v)
  IN /\ q.pc = "written"
     /\ IF updated = Null
        THEN /\ Proceed(r, [q EXCEPT !.pc = "done", !.status = 500])
             /\ ret' = Thrown("updateRefill", "Failed to retrieve updated refill")
        ELSE /\ Proceed(r, [q EXCEPT !.pc = "done", !.status = 200])
             /\ ret' = Returned("updateRefill",
                                [id |-> q.id.v, keys |-> keysOf(q.updates)], updated)
     /\ UNCHANGED <<expenses, refills, trips, seq, now, schema>>
     /\ UNCHANGED web

PutRequest(r, P) ==
  \/ PutArrives(r, P)
  \/ PutValidates(r)
  \/ PutReadsParams(r)
  \/ PutChecks(r)
  \/ PutWrites(r)
  \/ PutAnswers(r)

\* A handler that awaits nothing the requests above can change runs when the
\* thread is free.
WhileWaiting(A) == loop.running = 0 /\ A

\* -------------------------------------------------------- specifications
\* Numbers of every kind, one date, no optional text.
NumbersProfile == Profile(NumberInputs, {DateA}, {UndefinedStr}, TypeInputs)
NextNumbers == Services(NumbersProfile)
SpecNumbers == Init /\ [][NextNumbers]_vars

\* The refill service alone, numbers of every kind.
NextRefill == RefillService(NumbersProfile)
SpecRefill == Init /\ [][NextRefill]_vars


\* Valid numbers, one date, optional texts, the clock running.
TextsProfile ==
  Profile(FiniteInputs, {DateA}, {UndefinedStr, Str("a")}, {Str("fuel")})
NextTexts == Services(TextsProfile) \/ Tick
SpecTexts == Init /\ [][NextTexts]_vars

\* The same calls with the clock standing still.
NextPatch == Services(TextsProfile)
SpecPatch == Init /\ [][NextPatch]_vars

\* Dates whose text order and time order differ, and the lists.
DatesProfile ==
  Profile({Num(1)}, {DateA, DateB, DateC, GarbageDate}, {UndefinedStr}, {Str("fuel")})
NextDates == Services(DatesProfile) \/ GetExpenses \/ GetRefills \/ GetTrips
SpecDates == Init /\ [][NextDates]_vars

\* Trips and refills with their distances and dates, and the mileage series.
MileageProfile ==
  Profile(FiniteInputs \cup {Infinity}, {DateA, DateB}, {UndefinedStr}, {Str("fuel")})
NextMileage ==
  TripService(MileageProfile) \/ RefillService(MileageProfile) \/ GetMileageOverTime
SpecMileage == Init /\ [][NextMileage]_vars

\* Valid numbers, one date, no optional text, the clock running.
ClockProfile == Profile(FiniteInputs, {DateA}, {UndefinedStr}, {Str("fuel")})
NextClock == Services(ClockProfile) \/ Tick
SpecClock == Init /\ [][NextClock]_vars

\* The session tokens, followed to their expiry, the signing secret changing
\* from one start of the process to the next.
NextSession ==
  \/ Login \/ Logout \/ DeleteSession \/ ValidateSession
  \/ Restart({Str("pw")}, SecretConfigs) \/ SessionTick
SpecSession == Init /\ [][NextSession]_vars

\* The password gate under every configuration of the password.
NextPassword ==
  Login \/ VerifyPassword \/ Restart(PasswordConfigs, {UndefinedStr, Str("k1")}) \/ Tick
SpecPassword == Init /\ [][NextPassword]_vars

\* Logins and sessions of a process started with a JWT_EXPIRES_IN that is
\* unset, empty, or any text of up to MaxDurationLen of these characters:
\* the form the code documents, other forms the ms package reads, and texts
\* of no form at all.
DurationChars == {"0", "1", "2", "s", "m", "h", "d", "w", "H", " ", "-", "x"}
DurationTexts == UNION {[1..n -> DurationChars] : n \in 0..MaxDurationLen}
ExpiryConfigs == {UnsetDuration} \cup {Duration(text) : text \in DurationTexts}
InitExpiry ==
  \E value \in ExpiryConfigs :
     Started([APP_PASSWORD |-> Str("pw"), JWT_SECRET |-> Str("k1"),
              JWT_EXPIRES_IN |-> value])
NextExpiry == CreateSession \/ Login \/ Logout
SpecExpiry == InitExpiry /\ [][NextExpiry]_vars

\* Sessions that are logged out of and then used again: the two service
\* functions, login and logout, and the four list routes, until expiry.
NextLogout ==
  \/ Login \/ Logout \/ DeleteSession \/ ValidateSession \/ SessionTick
  \/ ExpensesGET \/ RefillsGET \/ TripsGET \/ MileageGET
SpecLogout == Init /\ [][NextLogout]_vars

\* What a JSON body can carry to the handlers: numbers, a string or null or
\* nothing where a number is due, dates that parse or not or are null, a type
\* that is blank.
RouteProfile ==
  Profile({Num(0), Num(1)}, {DateA, GarbageDate, NullDate},
          {UndefinedStr}, {Str("fuel"), Str(" ")})
NextRoutes == Routes(RouteProfile) \/ Login \/ Logout
SpecRoutes == Init /\ [][NextRoutes]_vars

\* Requests through the middleware, with no cookie, with an empty or a
\* made-up one, and with tokens of sessions that are live or logged out of.
NextMiddleware == Middleware \/ Login \/ Logout
SpecMiddleware == Init /\ [][NextMiddleware]_vars

\* Valid calls whose optional texts are left out, empty or given.
EmptyTextProfile ==
  Profile({Num(1)}, {DateA}, {UndefinedStr, Str(""), Str("a")}, {Str("fuel")})
NextEmptyText == Services(EmptyTextProfile)
SpecEmptyText == Init /\ [][NextEmptyText]_vars

\* Valid calls on a database that is reset between them.
NextSchema == Services(EmptyTextProfile) \/ ResetDatabase
SpecSchema == Init /\ [][NextSchema]_vars

\* Refills created with and without liters, updated, deleted and read back.
LitersInputs == {Undefined, Num(1), Num(2)}
LitersProfile == Profile(FiniteInputs, {DateA}, {UndefinedStr, Str("a")}, {Str("fuel")})
NextLiters ==
  \/ CreateRefillWithLiters(LitersProfile, LitersInputs)
  \/ UpdateRefill(LitersProfile)
  \/ DeleteRefill
  \/ GetRefillById
SpecLiters == Init /\ [][NextLiters]_vars

\* Two PUT /api/refills/[id] requests in flight, sessions and refills being
\* created while they wait; each patch has an amount, a distance, both or
\* neither, a number or the Infinity that JSON.parse reads 1e999 as.
LoopProfile == Profile({Num(2), Infinity}, {}, {}, {})
StoredProfile == Profile({Num(1)}, {DateA}, {UndefinedStr}, {})
NextLoop ==
  \/ \E r \in RequestSlots : PutRequest(r, LoopProfile)
  \/ WhileWaiting(CreateRefill(StoredProfile))
  \/ WhileWaiting(CreateSession)
SpecLoop == Init /\ [][NextLoop]_vars

\* Every function of the three services, writes and reads.
FrameProfile == Profile({Num(1)}, {DateA}, {UndefinedStr}, {Str("fuel")})
NextFrame ==
  \/ Services(FrameProfile)
  \/ GetExpenses \/ GetRefills \/ GetTrips
  \/ GetExpenseById \/ GetRefillById \/ GetTripById
  \/ GetTotalDistance \/ GetMileageOverTime
SpecFrame == Init /\ [][NextFrame]_vars

\* Trips and refills with distances 1..MaxNum, and the total read.
TotalProfile == Profile(FiniteInputs, {DateA}, {UndefinedStr}, {Str("fuel")})
NextTotal == TripService(TotalProfile) \/ RefillService(TotalProfile) \/ GetTotalDistance
SpecTotal == Init /\ [][NextTotal]_vars

\* ------------------------------------------------------------------ claims
\* C1: after any sequence of createRefill, updateRefill and deleteRefill
\* calls, every stored refill has efficiency == amountSpent / distanceTraveled
\* (a comparison no NaN satisfies).
C1_EfficiencyIsQuotient ==
  \A id \in DOMAIN refills :
    LET refill == getRefillById(id)
        quotient == jsDiv(refill.amountSpent, refill.distanceTraveled)
    IN quotient # NaN /\ refill.efficiency = quotient


\* What C2 says of the stored rows and of the rejected values.
isPositive(x) == x.k = "Infinity" \/ (x.k = "number" /\ x.v > 0)

\* A zero, a negative or a non-numeric value: NaN is not a number.
notPositiveInput(x) == x.k = "string" \/ x.k = "NaN" \/ (x.k = "number" /\ x.v <= 0)

\* The values the services' own test turns away.
failsTypeofTest(x) == x.k = "string" \/ (x.k = "number" /\ x.v <= 0)

throwsPositive(o, field) ==
  o.ret.status = "throw" /\ o.ret.msg = field \o " must be a positive number"

C2_StoredRowsValid ==
  /\ \A id \in DOMAIN expenses :
       /\ isPositive(expenses[id].amount)
       /\ expenses[id].type.k = "string" /\ ~isBlank(expenses[id].type)
  /\ \A id \in DOMAIN refills :
       isPositive(refills[id].amount_spent) /\ isPositive(refills[id].distance_traveled)
  /\ \A id \in DOMAIN trips : isPositive(trips[id].distance)

updatesReject(bad(_)) ==
  /\ \A id \in IdInputs, u \in ExpensePatches(NumbersProfile) :
       bad(u.amount) => throwsPositive(updateExpense(id, u), "Amount")
  /\ \A id \in IdInputs, u \in RefillPatches(NumbersProfile) :
       /\ bad(u.amountSpent) => throwsPositive(updateRefill(id, u), "Amount")
       /\ bad(u.distanceTraveled) =>
            \/ throwsPositive(updateRefill(id, u), "Distance")
            \/ bad(u.amountSpent) /\ throwsPositive(updateRefill(id, u), "Amount")
  /\ \A id \in IdInputs, u \in TripPatches(NumbersProfile) :
       bad(u.distance) => throwsPositive(updateTrip(id, u), "Distance")

refillTripCreatesReject(bad(_)) ==
  /\ \A r \in RefillInputs(NumbersProfile) :
       /\ bad(r.amountSpent) => throwsPositive(createRefill(r), "Amount")
       /\ bad(r.distanceTraveled) =>
            \/ throwsPositive(createRefill(r), "Distance")
            \/ bad(r.amountSpent) /\ throwsPositive(createRefill(r), "Amount")
  /\ \A t \in TripInputs(NumbersProfile) :
       bad(t.distance) => throwsPositive(createTrip(t), "Distance")

\* C2: every stored required number is strictly positive, every stored
\* expense type is non-blank after trimming, and a call that supplies a zero,
\* a negative or a non-numeric value for a required number throws a 'must be
\* a positive number' error.
C2_PositiveOrRejected ==
  /\ C2_StoredRowsValid
  /\ updatesReject(notPositiveInput)
  /\ refillTripCreatesReject(notPositiveInput)
  /\ \A e \in ExpenseInputs(NumbersProfile) :
       notPositiveInput(e.amount) => throwsPositive(createExpense(e), "Amount")

\* The part of C2 about what is stored, with every such call storing nothing.
C2_NothingInvalidStored ==
  /\ C2_StoredRowsValid
  /\ \A id \in IdInputs, u \in TripPatches(NumbersProfile) :
       notPositiveInput(u.distance) =>
         updateTrip(id, u).ret.status = "throw" /\ updateTrip(id, u).rows = trips
  /\ \A t \in TripInputs(NumbersProfile) :
       notPositiveInput(t.distance) =>
         createTrip(t).ret.status = "throw" /\ createTrip(t).rows = trips

\* The part of C2 about the error, for the values that fail the services'
\* test typeof x !== 'number' || x <= 0, createExpense reporting a missing or
\* blank type first.
C2_TestedValuesRejected ==
  /\ updatesReject(failsTypeofTest)
  /\ refillTripCreatesReject(failsTypeofTest)
  /\ \A e \in ExpenseInputs(NumbersProfile) :
       failsTypeofTest(e.amount) =>
         LET o == createExpense(e)
         IN /\ o.ret.status = "throw" /\ o.rows = expenses
            /\ IF e.type.k = "string" /\ ~isBlank(e.type)
               THEN throwsPositive(o, "Amount")
               ELSE o.ret.msg = "Required field missing: type"

\* A NaN distance passes the test and is turned away by the table.
C2_NaNThrowsPositive ==
  \A t \in TripInputs(NumbersProfile) :
     t.distance = NaN => throwsPositive(createTrip(t), "Distance")


\* C3: in every table, a row that an update leaves in place keeps its
\* createdAt, and its updatedAt afterwards is at least its updatedAt and its
\* createdAt before; step after step, so over any number of updates.
timestampsKept(old, new) ==
  \A id \in DOMAIN old \cap DOMAIN new :
    /\ new[id].created_at = old[id].created_at
    /\ new[id].updated_at >= old[id].updated_at
    /\ new[id].updated_at >= old[id].created_at

C3_UpdateKeepsCreatedAt ==
  [][/\ timestampsKept(expenses, expenses')
     /\ timestampsKept(refills, refills')
     /\ timestampsKept(trips, trips')]_vars

\* C3's case: a trip was updated after its creation, and the update of an
\* expense has just returned it with a later updatedAt.
C3_Witness ==
  /\ \E id \in DOMAIN trips : trips[id].updated_at > trips[id].created_at
  /\ ret.op = "updateExpense" /\ ret.status = "ok"
  /\ ret.val.updatedAt > ret.val.createdAt


\* C4: getExpenses, getRefills and getTrips return every stored row exactly
\* once, earliest date first, whatever valid dates the rows carry.
everyRowOnce(list, rows) ==
  /\ Len(list) = Cardinality(DOMAIN rows)
  /\ \A id \in DOMAIN rows : \E i \in 1..Len(list) : list[i].id = id

chronological(list) ==
  \A i, j \in 1..Len(list) : i < j => getTime(list[i].date) <= getTime(list[j].date)

C4_ListsChronological ==
  /\ ret.op = "getExpenses" => everyRowOnce(ret.val, expenses) /\ chronological(ret.val)
  /\ ret.op = "getRefills" => everyRowOnce(ret.val, refills) /\ chronological(ret.val)
  /\ ret.op = "getTrips" => everyRowOnce(ret.val, trips) /\ chronological(ret.val)

\* C5: a delete of an id that has no row returns false, throws nothing and
\* leaves every table as it was.
C5_DeleteMissingReturnsFalse ==
  [][(/\ now' = now
      /\ \/ ret'.op = "deleteExpense" /\ ret'.arg.id \notin DOMAIN expenses
         \/ ret'.op = "deleteRefill" /\ ret'.arg.id \notin DOMAIN refills
         \/ ret'.op = "deleteTrip" /\ ret'.arg.id \notin DOMAIN trips)
     => /\ ret'.status = "ok" /\ ret'.val = FALSE
        /\ expenses' = expenses /\ refills' = refills /\ trips' = trips]_vars

\* C5's case: rows are stored and a delete of a missing trip has returned
\* false.
C5_Witness ==
  /\ DOMAIN trips # {} /\ DOMAIN expenses # {}
  /\ ret.op = "deleteTrip" /\ ret.status = "ok" /\ ret.val = FALSE

\* C6: a delete of an existing id returns true and removes that row and no
\* other: getById finds nothing, no list holds it, every other row stays.
removedExactly(id, old, new) ==
  /\ DOMAIN new = DOMAIN old \ {id}
  /\ \A other \in DOMAIN new : new[other] = old[other]

C6_DeleteRemovesExactlyThatRow ==
  [][\A id \in IdInputs :
       /\ (now' = now /\ ret'.op = "deleteExpense" /\ ret'.arg.id = id /\ id \in DOMAIN expenses)
          => /\ ret'.status = "ok" /\ ret'.val = TRUE
             /\ removedExactly(id, expenses, expenses')
             /\ getExpenseById(id)' = Null
             /\ \A list \in getExpenses' : \A i \in 1..Len(list) : list[i].id # id
       /\ (now' = now /\ ret'.op = "deleteRefill" /\ ret'.arg.id = id /\ id \in DOMAIN refills)
          => /\ ret'.status = "ok" /\ ret'.val = TRUE
             /\ removedExactly(id, refills, refills')
             /\ getRefillById(id)' = Null
             /\ \A list \in getRefills' : \A i \in 1..Len(list) : list[i].id # id
       /\ (now' = now /\ ret'.op = "deleteTrip" /\ ret'.arg.id = id /\ id \in DOMAIN trips)
          => /\ ret'.status = "ok" /\ ret'.val = TRUE
             /\ removedExactly(id, trips, trips')
             /\ getTripById(id)' = Null
             /\ \A list \in getTrips' : \A i \in 1..Len(list) : list[i].id # id]_vars

\* C6's case: of two trips one has just been deleted and the other is still
\* stored.
C6_Witness ==
  /\ ret.op = "deleteTrip" /\ ret.status = "ok" /\ ret.val = TRUE
  /\ seq.trips = 2 /\ Cardinality(DOMAIN trips) = 1

\* The sum of one numeric column over a table, row by row.
RECURSIVE columnSum(_, _, _)
columnSum(rows, column, ids) ==
  IF ids = {} THEN Num(0)
  ELSE LET i == CHOOSE x \in ids : TRUE
       IN jsAdd(rows[i][column], columnSum(rows, column, ids \ {i}))

storedDistance ==
  jsAdd(columnSum(trips, "distance", DOMAIN trips),
        columnSum(refills, "distance_traveled", DOMAIN refills))

\* C7: in every reachable store state, whatever getMileageOverTime returns
\* has as many points as there are trip rows plus refill rows, its last
\* cumulativeDistance is the sum of every stored trip distance and every
\* stored refill distanceTraveled, and with both tables empty it is the
\* empty sequence.
C7_MileageLengthAndTotal ==
  \A points \in getMileageOverTime :
     /\ Len(points) = Cardinality(DOMAIN trips) + Cardinality(DOMAIN refills)
     /\ (trips = <<>> /\ refills = <<>>) => points = <<>>
     /\ points # <<>> => points[Len(points)].cumulativeDistance = storedDistance

\* A call has returned two points, one from each table, ending on the total.
C7_Witness ==
  /\ ret.op = "getMileageOverTime"
  /\ DOMAIN trips # {}
  /\ DOMAIN refills # {}
  /\ Len(ret.val) = 2
  /\ ret.val[2].cumulativeDistance = Num(MaxNum + 1)

\* a < b on positive numbers.
lessThan(a, b) ==
  /\ a.k = "number"
  /\ b.k = "Infinity" \/ (b.k = "number" /\ a.v < b.v)

\* The orders in which the stored trips and refills can be merged.
mergedEvents ==
  LET keys == ({"trips"} \X DOMAIN trips) \cup ({"refills"} \X DOMAIN refills)
      n == Cardinality(keys)
  IN {s \in [1..n -> keys] : \A i, j \in 1..n : i # j => s[i] # s[j]}

eventOf(key) ==
  IF key[1] = "trips"
  THEN [date |-> trips[key[2]].date, distance |-> trips[key[2]].distance]
  ELSE [date |-> refills[key[2]].date, distance |-> refills[key[2]].distance_traveled]

RECURSIVE prefixSum(_, _)
prefixSum(events, i) ==
  IF i = 0 THEN Num(0) ELSE jsAdd(prefixSum(events, i - 1), eventOf(events[i]).distance)

ascendingDates(points) ==
  \A i, j \in DOMAIN points : i < j => getTime(points[i].date) <= getTime(points[j].date)

prefixSums(points) ==
  \E events \in mergedEvents :
     /\ Len(points) = Len(events)
     /\ \A i \in DOMAIN points :
          /\ points[i].date = eventOf(events[i]).date
          /\ points[i].cumulativeDistance = prefixSum(events, i)

strictlyIncreasing(points) ==
  \A i \in DOMAIN points : i > 1 =>
     lessThan(points[i - 1].cumulativeDistance, points[i].cumulativeDistance)

\* C8: the points getMileageOverTime returns are in ascending date order
\* across trips and refills merged together, the i-th cumulativeDistance is
\* the sum of the distances of the first i merged events, and
\* cumulativeDistance is strictly increasing along the sequence.
C8_MileageOrderedPrefixSums ==
  \A points \in getMileageOverTime :
     /\ ascendingDates(points)
     /\ prefixSums(points)
     /\ strictlyIncreasing(points)

\* The parts of C8 taken one at a time.
C8_AscendingDates == \A points \in getMileageOverTime : ascendingDates(points)
C8_PrefixSums == \A points \in getMileageOverTime : prefixSums(points)
C8_StrictlyIncreasing == \A points \in getMileageOverTime : strictlyIncreasing(points)

\* Every argument a caller can hand to a create.
AnyInputs == Profile(NumberInputs, DateInputs, TextInputs, TypeInputs)

createdExpenseRead(expense) ==
  LET o == createExpense(expense)
  IN o.ret.status = "ok" =>
       /\ o.ret.val.id \in DOMAIN o.rows
       /\ o.ret.val = mapRowToExpense(o.rows[o.ret.val.id])
       /\ o.ret.val.type = expense.type
       /\ o.ret.val.amount = expense.amount
       /\ o.ret.val.date = expense.date

createdRefillRead(refill) ==
  LET o == createRefill(refill)
  IN o.ret.status = "ok" =>
       /\ o.ret.val.id \in DOMAIN o.rows
       /\ o.ret.val = mapRowToRefill(o.rows[o.ret.val.id])
       /\ o.ret.val.amountSpent = refill.amountSpent
       /\ o.ret.val.distanceTraveled = refill.distanceTraveled
       /\ o.ret.val.date = refill.date

createdTripRead(trip) ==
  LET o == createTrip(trip)
  IN o.ret.status = "ok" =>
       /\ o.ret.val.id \in DOMAIN o.rows
       /\ o.ret.val = mapRowToTrip(o.rows[o.ret.val.id])
       /\ o.ret.val.distance = trip.distance
       /\ o.ret.val.date = trip.date

\* C9: for every input a create accepts, in every reachable store state, the
\* entity the create returns is the entity getById returns for the returned
\* id right afterwards, and its required fields are the input's values.
C9_CreateReturnsWhatGetByIdReads ==
  /\ (ret.op = "createExpense" /\ ret.status = "ok") => ret.val = getExpenseById(ret.val.id)
  /\ (ret.op = "createRefill" /\ ret.status = "ok") => ret.val = getRefillById(ret.val.id)
  /\ (ret.op = "createTrip" /\ ret.status = "ok") => ret.val = getTripById(ret.val.id)
  /\ \A expense \in ExpenseInputs(AnyInputs) : createdExpenseRead(expense)
  /\ \A refill \in RefillInputs(AnyInputs) : createdRefillRead(refill)
  /\ \A trip \in TripInputs(AnyInputs) : createdTripRead(trip)

\* A second trip has just been created with the offset date and is read back.
C9_Witness ==
  /\ ret.op = "createTrip"
  /\ ret.status = "ok"
  /\ ret.val.id = 2
  /\ ret.val.date = DateB
  /\ getTripById(2) = ret.val
  /\ createTrip([distance |-> Num(1), date |-> DateB, purpose |-> UndefinedStr,
                 notes |-> UndefinedStr]).ret.status = "ok"

\* The table after an update that changed nothing of row id but updated_at.
onlyTouched(rows, id) == [rows EXCEPT ![id].updated_at = now]

emptyPatchReturned(op) ==
  /\ now' = now
  /\ ret'.op = op
  /\ ret'.status = "ok"
  /\ ret'.arg.keys = {}

\* C10: an update with an empty patch on an existing row changes only that
\* row's updated_at: every other column of the row (the refill's efficiency
\* and created_at among them) and every other row of every table is the same
\* before and after.
C10_EmptyPatchOnlyTouches ==
  [][\A id \in IdInputs :
       /\ (emptyPatchReturned("updateExpense") /\ ret'.arg.id = id) =>
            /\ id \in DOMAIN expenses
            /\ expenses' = onlyTouched(expenses, id)
            /\ UNCHANGED <<refills, trips, seq>>
       /\ (emptyPatchReturned("updateRefill") /\ ret'.arg.id = id) =>
            /\ id \in DOMAIN refills
            /\ refills' = onlyTouched(refills, id)
            /\ UNCHANGED <<expenses, trips, seq>>
       /\ (emptyPatchReturned("updateTrip") /\ ret'.arg.id = id) =>
            /\ id \in DOMAIN trips
            /\ trips' = onlyTouched(trips, id)
            /\ UNCHANGED <<expenses, refills, seq>>]_vars

\* An empty patch has just been applied, after a tick of the clock, to the
\* first of two refills, which has notes and an efficiency of 2 / 1.
C10_Witness ==
  /\ ret.op = "updateRefill"
  /\ ret.status = "ok"
  /\ ret.arg = [id |-> 1, keys |-> {}]
  /\ DOMAIN refills = {1, 2}
  /\ refills[1].notes = Str("a")
  /\ refills[1].efficiency = jsDiv(Num(2), Num(1))
  /\ refills[1].created_at < refills[1].updated_at
  /\ refills[2].created_at = refills[2].updated_at

\* The column a field of a patch is written to.
columnOf(key) ==
  CASE key = "amountSpent" -> "amount_spent"
    [] key = "distanceTraveled" -> "distance_traveled"
    [] OTHER -> key

\* An update of table old into new has just returned: the row it names is
\* the only one that differs, and only in the columns of the patch's fields
\* and in those every update writes.
patchedOnly(op, old, new, always) ==
  (now' = now /\ ret'.op = op /\ ret'.status = "ok") =>
     LET id == ret'.arg.id
         written == {columnOf(key) : key \in ret'.arg.keys} \cup always
     IN /\ id \in DOMAIN old
        /\ DOMAIN new = DOMAIN old
        /\ \A other \in DOMAIN old \ {id} : new[other] = old[other]
        /\ \A column \in (DOMAIN old[id]) \ written : new[id][column] = old[id][column]

\* A patch of valid values on a stored row is applied whatever it leaves
\* out, and each field it has is in the row afterwards.
patchApplied(o, id, updates, texts) ==
  /\ o.ret.status = "ok"
  /\ \A key \in keysOf(updates) :
       o.rows[id][columnOf(key)] =
          IF key \in texts THEN orNull(updates[key]) ELSE updates[key]
  /\ o.ret.val.id = id

validPatchesApplied ==
  /\ \A id \in DOMAIN expenses, u \in ExpensePatches(TextsProfile) :
       patchApplied(updateExpense(id, u), id, u, {"description"})
  /\ \A id \in DOMAIN refills, u \in RefillPatches(TextsProfile) :
       patchApplied(updateRefill(id, u), id, u, {"notes"})
  /\ \A id \in DOMAIN trips, u \in TripPatches(TextsProfile) :
       patchApplied(updateTrip(id, u), id, u, {"purpose", "notes"})

\* C11: a partial update writes only the fields its patch has, plus
\* updated_at and, for a refill, efficiency: every other column of the row
\* and every other row keeps its value, and a patch of valid values is
\* applied whatever fields it leaves out.
C11_PartialUpdateWritesPatchOnly ==
  /\ []validPatchesApplied
  /\ [][/\ patchedOnly("updateExpense", expenses, expenses', {"updated_at"})
        /\ patchedOnly("updateRefill", refills, refills', {"updated_at", "efficiency"})
        /\ patchedOnly("updateTrip", trips, trips', {"updated_at"})]_vars

\* A refill with notes has just had its amount alone replaced: the notes and
\* the distance are as stored.
C11_Witness ==
  /\ ret.op = "updateRefill"
  /\ ret.status = "ok"
  /\ ret.arg = [id |-> 1, keys |-> {"amountSpent"}]
  /\ refills[1].amount_spent = Num(2)
  /\ refills[1].distance_traveled = Num(1)
  /\ refills[1].notes = Str("a")
  /\ refills[1].efficiency = jsDiv(Num(2), Num(1))

\* An update of a row that is not there throws 'Resource not found' and
\* leaves the table as it was.
notFound(o, rows) ==
  /\ o.ret.status = "throw"
  /\ o.ret.msg = "Resource not found"
  /\ o.rows = rows

\* The patches that pass the checks an update makes of the fields it is given.
passesNumber(x) == x = Undefined \/ (typeof(x) = "number" /\ ~leqZero(x))
passesDate(date) == date = UndefinedDate \/ ~invalidDate(date)
passesType(type) == type = UndefinedStr \/ ~(type.v = "" \/ isBlank(type))

\* C12: updateExpense, updateRefill and updateTrip on an id without a row
\* throw 'Resource not found', for every partial input, and leave every
\* table unchanged.
C12_UpdateMissingNotFound ==
  /\ \A id \in IdInputs \ DOMAIN expenses, u \in ExpensePatches(NumbersProfile) :
       notFound(updateExpense(id, u), expenses)
  /\ \A id \in IdInputs \ DOMAIN refills, u \in RefillPatches(NumbersProfile) :
       notFound(updateRefill(id, u), refills)
  /\ \A id \in IdInputs \ DOMAIN trips, u \in TripPatches(NumbersProfile) :
       notFound(updateTrip(id, u), trips)

\* C12 for the partial inputs that pass the update's own checks.
C12_ValidPatchMissingNotFound ==
  /\ \A id \in IdInputs \ DOMAIN expenses, u \in ExpensePatches(NumbersProfile) :
       (passesNumber(u.amount) /\ passesDate(u.date) /\ passesType(u.type))
          => notFound(updateExpense(id, u), expenses)
  /\ \A id \in IdInputs \ DOMAIN refills, u \in RefillPatches(NumbersProfile) :
       (passesNumber(u.amountSpent) /\ passesNumber(u.distanceTraveled) /\ passesDate(u.date))
          => notFound(updateRefill(id, u), refills)
  /\ \A id \in IdInputs \ DOMAIN trips, u \in TripPatches(NumbersProfile) :
       (passesNumber(u.distance) /\ passesDate(u.date))
          => notFound(updateTrip(id, u), trips)

\* C12's frame alone: whatever such an update throws, nothing is written.
C12_UpdateMissingWritesNothing ==
  /\ \A id \in IdInputs \ DOMAIN expenses, u \in ExpensePatches(NumbersProfile) :
       updateExpense(id, u).ret.status = "throw" /\ updateExpense(id, u).rows = expenses
  /\ \A id \in IdInputs \ DOMAIN refills, u \in RefillPatches(NumbersProfile) :
       updateRefill(id, u).ret.status = "throw" /\ updateRefill(id, u).rows = refills
  /\ \A id \in IdInputs \ DOMAIN trips, u \in TripPatches(NumbersProfile) :
       updateTrip(id, u).ret.status = "throw" /\ updateTrip(id, u).rows = trips

\* The errors a create or an update raises for what it was given.
ValidationErrors ==
  {"Amount must be a positive number", "Distance must be a positive number",
   "Required field missing: type", "Required field missing: date",
   "Invalid date format. Use ISO 8601 format", "Type cannot be empty"}

\* Every argument of a create or an update that bears on its checks.
CheckedInputs == Profile(NumberInputs, DateInputs, {UndefinedStr}, TypeInputs)

wroteNothing(o, rows, n) ==
  (o.ret.status = "throw" /\ o.ret.msg \in ValidationErrors) => (o.rows = rows /\ o.seq = n)

validationWritesNothing ==
  /\ \A e \in ExpenseInputs(CheckedInputs) :
       wroteNothing(createExpense(e), expenses, seq.expenses)
  /\ \A r \in RefillInputs(CheckedInputs) :
       wroteNothing(createRefill(r), refills, seq.refills)
  /\ \A t \in TripInputs(CheckedInputs) :
       wroteNothing(createTrip(t), trips, seq.trips)
  /\ \A id \in IdInputs, u \in ExpensePatches(CheckedInputs) :
       wroteNothing(updateExpense(id, u), expenses, seq.expenses)
  /\ \A id \in IdInputs, u \in RefillPatches(CheckedInputs) :
       wroteNothing(updateRefill(id, u), refills, seq.refills)
  /\ \A id \in IdInputs, u \in TripPatches(CheckedInputs) :
       wroteNothing(updateTrip(id, u), trips, seq.trips)

\* C13: a create or an update that raises a validation error leaves every
\* table as it was: no row is inserted, and no column of any row, updated_at
\* included, is changed.
C13_ValidationErrorWritesNothing ==
  /\ []validationWritesNothing
  /\ [][(ret'.status = "throw" /\ ret'.msg \in ValidationErrors)
          => UNCHANGED <<expenses, refills, trips, seq>>]_vars

\* A create has just been turned away for its date, with rows in the table.
C13_Witness ==
  /\ ret.op = "createTrip"
  /\ ret.status = "throw"
  /\ ret.msg = "Invalid date format. Use ISO 8601 format"
  /\ DOMAIN trips = {1}
  /\ seq.trips = 1

\* What C14 asks of a token for validateSession to return true.
signatureVerifies(token) ==
  token.k = "jwt" /\ ~falsy(env.JWT_SECRET) /\ token.key = env.JWT_SECRET.v
unexpired(token) == token.exp.k = "number" => now < token.exp.v
claimsAuthenticated(token) == strictEquals(token.authenticated, True)

\* C14: validateSession(token) returns true only if the token's signature
\* verifies against the configured signing secret, the token is unexpired
\* and its claim has authenticated === true; in every other case (no JWT,
\* another key, expired, another claim, no signing secret configured) it
\* returns false, and it never throws.
C14_ValidateSessionTrueOnlyIfValid ==
  /\ \A token \in TokenInputs :
       LET r == validateSession(token)
       IN /\ r.status = "ok"
          /\ r.val \in BOOLEAN
          /\ r.val <=> (signatureVerifies(token) /\ unexpired(token)
                          /\ claimsAuthenticated(token))
  /\ ret.op = "validateSession" => (ret.status = "ok" /\ ret.val \in BOOLEAN)

\* validateSession has just returned false for a token that was issued and
\* is unexpired, the process having been started without a signing secret.
C14_Witness ==
  /\ ret.op = "validateSession"
  /\ ret.status = "ok"
  /\ ret.val = FALSE
  /\ ret.arg.token \in issued
  /\ unexpired(ret.arg.token)
  /\ falsy(env.JWT_SECRET)

\* C15: with the signing secret it was signed with still configured, a token
\* issued by createSession is accepted by validateSession at every time
\* before its exp and rejected, with false and no throw, at every time from
\* its exp on; whatever the configuration, once its exp is reached no later
\* state accepts it.
C15_IssuedTokenValidUntilExpiry ==
  /\ [](\A token \in issued :
          /\ token.exp.k = "number"
          /\ validateSession(token).status = "ok"
          /\ env.JWT_SECRET = Str(token.key) =>
               (validateSession(token).val <=> now < token.exp.v))
  /\ [][\A token \in issued :
          now >= token.exp.v => ~validateSessionAt(token, env', now').val]_vars

\* The token of a login at tick 0 has just been rejected at the tick of its
\* exp, the secret unchanged.
C15_Witness ==
  /\ ret.op = "validateSession"
  /\ ret.val = FALSE
  /\ ret.arg.token \in issued
  /\ env.JWT_SECRET = Str(ret.arg.token.key)
  /\ now = ret.arg.token.exp.v
  /\ now = SessionLife

\* C16: logout revokes nothing on the server. A token issued before a logout
\* is accepted by validateSession and by the gate of every protected route
\* exactly as before the logout, until it expires; the logout handler only
\* deletes the sessionId cookie, and deleteSession does nothing at all.
acceptedAsBefore ==
  \A token \in issued :
     /\ validateSession(token)' = validateSession(token)
     /\ validateApiRequest(token)' = validateApiRequest(token)
     /\ now < token.exp.v => validateSession(token).val /\ validateApiRequest(token).ok

C16_LogoutRevokesNothing ==
  [][/\ Logout =>
          /\ acceptedAsBefore
          /\ cookies' = NoCookie
          /\ UNCHANGED <<expenses, refills, trips, seq, now, env, issued>>
     /\ DeleteSession =>
          /\ acceptedAsBefore
          /\ UNCHANGED <<expenses, refills, trips, seq, now, env, issued, cookies, response>>
    ]_vars

\* After a logout the browser has no cookie, and the token it had is accepted
\* by a protected route.
C16_Witness ==
  /\ cookies.sessionId = EmptyToken
  /\ response.route = "GET /api/expenses"
  /\ response.status = 200
  /\ response.token \in issued
  /\ now > 0

\* C17: with a password configured, verifyPassword(candidate) returns, and
\* returns true exactly when the candidate is a string equal to the
\* configured one; with none configured it throws the configuration error
\* for every candidate. The login route answers a wrong candidate 401
\* 'Invalid password' and the configuration error 500 'Authentication
\* service not configured'. A call changes nothing but its own result.
stringEqual(candidate, configured) ==
  candidate.k = "string" /\ configured.k = "string" /\ candidate.v = configured.v

passwordChecked(candidate) ==
  LET isValid == verifyPassword(candidate)
      login == loginResponse(candidate)
  IN IF falsy(env.APP_PASSWORD)
     THEN /\ isValid.status = "throw"
          /\ isValid.msg = "APP_PASSWORD environment variable is not configured"
          /\ ~falsy(candidate) =>
               /\ login.status = 500
               /\ login.error = "Authentication service not configured"
     ELSE /\ isValid.status = "ok"
          /\ isValid.val = stringEqual(candidate, env.APP_PASSWORD)
          /\ (~falsy(candidate) /\ ~isValid.val) =>
               /\ login.status = 401
               /\ login.error = "Invalid password"

C17_VerifyPasswordExact ==
  /\ [](\A candidate \in PasswordInputs : passwordChecked(candidate))
  /\ [][(ret'.op = "verifyPassword" /\ now' = now /\ env' = env) =>
          /\ passwordChecked(ret'.arg.password)
          /\ ret'.status = verifyPassword(ret'.arg.password).status
          /\ ret'.status = "ok" => ret'.val = verifyPassword(ret'.arg.password).val
          /\ UNCHANGED <<expenses, refills, trips, seq, cookies, issued, response>>
       ]_vars

\* Without a configured password a login was answered 500 and a direct call
\* threw the configuration error.
C17_Witness ==
  /\ falsy(env.APP_PASSWORD)
  /\ ret.op = "verifyPassword"
  /\ ret.status = "throw"
  /\ ret.arg.password = Str("pw")
  /\ response.route = "login"
  /\ response.status = 500
  /\ response.error = "Authentication service not configured"

\* C19: the login route calls createSession and sets the sessionId cookie
\* only after verifyPassword has returned true in the same request. A missing
\* password is answered 400, a wrong one 401, an unconfigured one 500, each
\* without a call of createSession and without a cookie; the cookie jar gets
\* a token, and a token is signed, only in a login answered 200.
called(r, function) == \E i \in 1..Len(r.calls) : r.calls[i] = function

loginGated(password) ==
  LET r == loginResponse(password)
      isValid == verifyPassword(password)
  IN /\ (called(r, "createSession") \/ called(r, "cookies.set") \/ r.token # EmptyToken) =>
          /\ r.calls[1] = "verifyPassword"
          /\ r.calls[2] = "createSession"
          /\ isValid.status = "ok"
          /\ isValid.val = TRUE
     /\ falsy(password) => r.status = 400
     /\ (~falsy(password) /\ isValid.status = "throw") => r.status = 500
     /\ (~falsy(password) /\ isValid.status = "ok" /\ ~isValid.val) => r.status = 401
     /\ r.status = 200 <=> called(r, "cookies.set")
     /\ r.status = 200 <=> r.token # EmptyToken

C19_LoginOnlyAfterVerifyPassword ==
  /\ [](\A password \in PasswordInputs : loginGated(password))
  /\ [][/\ (issued' # issued \/ (cookies' # cookies /\ cookies'.sessionId # EmptyToken)) =>
             /\ response'.route = "login"
             /\ response'.status = 200
             /\ cookies'.sessionId = response'.token
             /\ issued' = issued \cup {response'.token}
             /\ \E password \in PasswordInputs :
                  /\ response' = loginResponse(password)
                  /\ verifyPassword(password).status = "ok"
                  /\ verifyPassword(password).val = TRUE
        /\ (Login /\ response'.status # 200) => UNCHANGED <<cookies, issued>>
       ]_vars

\* After a granted login a wrong password was answered 401, and the cookie
\* is still the one the granted login set.
C19_Witness ==
  /\ response.route = "login"
  /\ response.status = 401
  /\ called(response, "verifyPassword")
  /\ cookies.sessionId \in issued

\* C18: a protected handler calls its service only after validateApiRequest
\* has accepted the request. When the request has no sessionId cookie, or
\* validateSession rejects the cookie's value, every expense, refill, trip
\* and mileage handler answers 401, calls no service function and leaves
\* the store as it was.
ProtectedRoutes ==
  {"GET /api/expenses", "POST /api/expenses", "PUT /api/expenses/[id]",
   "DELETE /api/expenses/[id]", "GET /api/refills", "POST /api/refills",
   "PUT /api/refills/[id]", "DELETE /api/refills/[id]", "GET /api/trips",
   "POST /api/trips", "PUT /api/trips/[id]", "DELETE /api/trips/[id]",
   "GET /api/trips/mileage"}

rejectedRequest(token) == token = EmptyToken \/ ~validateSession(token).val

C18_NoServiceCallWithoutSession ==
  /\ [](\A token \in TokenInputs \cup RequestTokens :
          validateApiRequest(token).ok <=> ~rejectedRequest(token))
  /\ [][response'.route \in ProtectedRoutes =>
          /\ rejectedRequest(response'.token) =>
               /\ response'.status = 401
               /\ ret' = NoCall
               /\ \A i \in 1..Len(response'.calls) : response'.calls[i] = "validateSession"
               /\ UNCHANGED <<expenses, refills, trips, seq>>
          /\ (ret' # NoCall \/ <<expenses, refills, trips, seq>>' # <<expenses, refills, trips, seq>>) =>
               /\ ~rejectedRequest(response'.token)
               /\ response'.calls[1] = "validateSession"
               /\ response'.status # 401
       ]_vars

\* A DELETE carrying a token of this server that has expired was answered
\* 401, and the rows are still there.
C18_Witness ==
  /\ response.route = "DELETE /api/expenses/[id]"
  /\ response.status = 401
  /\ response.token.k = "jwt"
  /\ ret = NoCall
  /\ DOMAIN expenses # {}

\* C20: for every route and every error its service can raise, the status
\* follows the taxonomy. A message containing 'Required field missing',
\* 'must be a positive number', 'Invalid date format' or 'cannot be empty'
\* is answered 400 with that message; 'Resource not found', and a delete
\* that returns false, 404; every other error 500 with the route's fixed
\* message, which is not the internal one.
ValidationPhrases ==
  {"Required field missing", "must be a positive number", "Invalid date format",
   "cannot be empty"}

GenericMessages ==
  {"Failed to create expense", "Failed to update expense", "Failed to delete expense",
   "Failed to create refill", "Failed to update refill", "Failed to delete refill",
   "Failed to create trip", "Failed to update trip", "Failed to delete trip",
   "Failed to fetch expenses", "Failed to fetch refills", "Failed to fetch trips",
   "Failed to fetch mileage data"}

followsTaxonomy(message, answer) ==
  IF \E phrase \in ValidationPhrases : includes(message, phrase)
  THEN answer.status = 400 /\ answer.error = message
  ELSE IF message = "Resource not found"
  THEN answer.status = 404 /\ answer.error = "Resource not found"
  ELSE /\ answer.status = 500
       /\ answer.error \in GenericMessages
       /\ answer.error # message
       /\ message \notin GenericMessages

\* The messages the create and the update of an entity can throw.
createMessages(entity) ==
  {"Required field missing: date", "Invalid date format. Use ISO 8601 format",
   SqliteError}
  \cup (IF entity = "expense"
        THEN {"Required field missing: type", "Amount must be a positive number"}
        ELSE IF entity = "refill"
        THEN {"Amount must be a positive number", "Distance must be a positive number"}
        ELSE {"Distance must be a positive number"})

updateMessages(entity) ==
  {"Resource not found", "Invalid date format. Use ISO 8601 format", SqliteError,
   "Failed to retrieve updated " \o entity}
  \cup (IF entity = "expense"
        THEN {"Type cannot be empty", "Amount must be a positive number"}
        ELSE IF entity = "refill"
        THEN {"Amount must be a positive number", "Distance must be a positive number"}
        ELSE {"Distance must be a positive number"})

catchBlocksFollowTaxonomy ==
  \A entity \in {"expense", "refill", "trip"} :
     /\ \A message \in createMessages(entity) :
          followsTaxonomy(message, createCatch(message, entity))
     /\ \A message \in updateMessages(entity) :
          followsTaxonomy(message, updateCatch(message, entity))

C20_StatusFollowsTaxonomy ==
  /\ []catchBlocksFollowTaxonomy
  /\ [][response'.route \in ProtectedRoutes =>
          /\ ret'.status = "throw" =>
               /\ followsTaxonomy(ret'.msg, response')
               /\ ret'.msg \in createMessages("expense") \cup createMessages("refill")
                     \cup createMessages("trip") \cup updateMessages("expense")
                     \cup updateMessages("refill") \cup updateMessages("trip")
          /\ (/\ ret'.status = "ok"
              /\ ret'.op \in {"deleteExpense", "deleteRefill", "deleteTrip"}
              /\ ret'.val = FALSE) =>
               /\ response'.status = 404
               /\ response'.error = "Resource not found"
       ]_vars

\* A PUT whose date is null on a stored expense: the statement failed, and
\* the handler answered 500 with its own message.
C20_Witness ==
  /\ response.route = "PUT /api/expenses/[id]"
  /\ response.status = 500
  /\ response.error = "Failed to update expense"
  /\ ret.status = "throw"
  /\ ret.msg = SqliteError
  /\ DOMAIN expenses # {}

\* The form of a duration the code documents, <int><s|m|h|d>, read from the
\* left, and the seconds it stands for; a day for an unset value and for a
\* text of any other form.
RECURSIVE decimal(_, _)
decimal(text, sofar) ==
  IF text = <<>> THEN sofar
  ELSE decimal(Tail(text), 10 * sofar + digitValue(Head(text)))

hasDocumentedForm(value) ==
  /\ value.k = "string"
  /\ Len(value.v) >= 2
  /\ allDigits(SubSeq(value.v, 1, Len(value.v) - 1))
  /\ value.v[Len(value.v)] \in {"s", "m", "h", "d"}

configuredSeconds(value) ==
  IF ~hasDocumentedForm(value) THEN 86400
  ELSE LET n == decimal(SubSeq(value.v, 1, Len(value.v) - 1), 0)
           unit == value.v[Len(value.v)]
       IN IF unit = "s" THEN n
          ELSE IF unit = "m" THEN 60 * n
          ELSE IF unit = "h" THEN 3600 * n
          ELSE 86400 * n

\* C21: createSession issues a token whose lifetime exp - iat is the
\* configured duration of the form <int><s|m|h|d>, 24h when none is
\* configured, and 24h, without failing, when the configured text has
\* another form.
C21_LifetimeIsConfiguredOrDay ==
  ret.op = "createSession" =>
     /\ ret.status = "ok"
     /\ ret.val.exp.v - now = configuredSeconds(ret.arg.expiresIn)

\* C21, the part that holds: with a duration of the documented form, or with
\* none, the lifetime is that duration, or 24h.
C21_DocumentedFormLifetime ==
  (/\ ret.op = "createSession"
   /\ \/ hasDocumentedForm(ret.arg.expiresIn)
      \/ ret.arg.expiresIn \in {UnsetDuration, Duration(<<>>)}) =>
     /\ ret.status = "ok"
     /\ ret.val.exp.v - now = configuredSeconds(ret.arg.expiresIn)

\* C21, where it fails: a text of another form makes createSession throw,
\* unless the ms package reads it, and then the lifetime is what ms reads.
C21_OtherFormThrowsOrMs ==
  (/\ ret.op = "createSession"
   /\ ~hasDocumentedForm(ret.arg.expiresIn)
   /\ ret.arg.expiresIn \notin {UnsetDuration, Duration(<<>>)}) =>
     IF ms(ret.arg.expiresIn.v).type = "none"
     THEN ret.status = "throw"
     ELSE ret.status = "ok" /\ ret.val.exp = timespan(ret.arg.expiresIn.v, now)

\* C22: on a successful login the max-age of the sessionId cookie is the
\* configured expiry in seconds: '<n>s', '<n>m', '<n>h', '<n>d' give n, 60n,
\* 3600n, 86400n, an unset value and a text of any other form give 86400.
C22_CookieMaxAgeIsConfiguredSeconds ==
  /\ parseExpirationToSeconds(orDay(env.JWT_EXPIRES_IN)) = configuredSeconds(env.JWT_EXPIRES_IN)
  /\ (response.route = "login" /\ response.status = 200 /\ cookies.sessionId # EmptyToken) =>
       /\ cookies.sessionId = response.token
       /\ cookies.maxAge = configuredSeconds(env.JWT_EXPIRES_IN)

\* A login under JWT_EXPIRES_IN = '12h' has set the cookie for 43200
\* seconds.
C22_Witness ==
  /\ env.JWT_EXPIRES_IN = Duration(<<"1", "2", "h">>)
  /\ response.route = "login"
  /\ response.status = 200
  /\ cookies.sessionId \in issued
  /\ cookies.maxAge = 43200

\* ---------------------------------------------------------------------- C23
isPublicPath(pathname) ==
  startsWith(pathname, LoginPath) \/ startsWith(pathname, ApiAuthPath)

\* C23 as stated: a request for a path starting with /login or /api/auth is
\* passed on, any other request without a sessionId cookie is redirected to
\* /login, and any other request with a sessionId cookie, whatever its value,
\* is passed on.
C23_AnyCookieValuePasses ==
  ret.op = "middleware" =>
    IF isPublicPath(ret.arg.pathname) THEN ret.val = PassedOn
    ELSE IF ret.arg.sessionId = Undefined THEN ret.val = RedirectTo(LoginPath)
    ELSE ret.val = PassedOn

\* C23 amended: a request for a path starting with /login or /api/auth is
\* passed on, any other request whose sessionId cookie is missing or empty
\* is redirected to /login, and any other request with a non-empty sessionId
\* cookie is passed on, whether or not validateSession accepts its value.
C23_NonEmptyCookiePasses ==
  ret.op = "middleware" =>
    IF isPublicPath(ret.arg.pathname) THEN ret.val = PassedOn
    ELSE IF ret.arg.sessionId \in {Undefined, Str("")}
    THEN ret.val = RedirectTo(LoginPath)
    ELSE ret.val = PassedOn

\* A request for a protected path was passed on with a token that
\* validateSession rejects.
C23_Witness ==
  /\ ret.op = "middleware"
  /\ ~isPublicPath(ret.arg.pathname)
  /\ ret.arg.sessionId.k = "jwt"
  /\ ~validateSession(ret.arg.sessionId).val
  /\ ret.val = PassedOn

\* ---------------------------------------------------------------------- C24
\* The update o of row id, whose patch has the empty string for the text
\* field key, succeeded and left value in that column.
emptyTextStoredAs(o, id, updates, key, value) ==
  updates[key] = Str("") => (o.ret.status = "ok" /\ o.rows[id][key] = value)

emptyTextUpdatesStore(value) ==
  /\ \A id \in DOMAIN expenses, u \in ExpensePatches(EmptyTextProfile) :
       emptyTextStoredAs(updateExpense(id, u), id, u, "description", value)
  /\ \A id \in DOMAIN refills, u \in RefillPatches(EmptyTextProfile) :
       emptyTextStoredAs(updateRefill(id, u), id, u, "notes", value)
  /\ \A id \in DOMAIN trips, u \in TripPatches(EmptyTextProfile) :
       /\ emptyTextStoredAs(updateTrip(id, u), id, u, "purpose", value)
       /\ emptyTextStoredAs(updateTrip(id, u), id, u, "notes", value)

\* C24 as stated: an update whose patch has the empty string for an optional
\* text field (description, notes, purpose) leaves the empty string in that
\* column of the row.
C24_EmptyTextUpdateStoresEmpty == emptyTextUpdatesStore(Str(""))

\* The object an update with the empty string for key returns has no such
\* field.
emptyTextReturnedAbsent(o, updates, key) ==
  updates[key] = Str("") => o.ret.val[key] = UndefinedStr

emptyTextUpdatesReturnAbsent ==
  /\ \A id \in DOMAIN expenses, u \in ExpensePatches(EmptyTextProfile) :
       emptyTextReturnedAbsent(updateExpense(id, u), u, "description")
  /\ \A id \in DOMAIN refills, u \in RefillPatches(EmptyTextProfile) :
       emptyTextReturnedAbsent(updateRefill(id, u), u, "notes")
  /\ \A id \in DOMAIN trips, u \in TripPatches(EmptyTextProfile) :
       /\ emptyTextReturnedAbsent(updateTrip(id, u), u, "purpose")
       /\ emptyTextReturnedAbsent(updateTrip(id, u), u, "notes")

\* No optional text column of any stored row holds the empty string.
noEmptyTextStored ==
  /\ \A id \in DOMAIN expenses : expenses[id].description # Str("")
  /\ \A id \in DOMAIN refills : refills[id].notes # Str("")
  /\ \A id \in DOMAIN trips : trips[id].purpose # Str("") /\ trips[id].notes # Str("")

\* C24 amended: an update whose patch has the empty string for an optional
\* text field clears that column (it holds NULL afterwards, whatever it held
\* before) and the returned object has no such field, just as create treats
\* the empty string as not provided; no text column ever holds the empty
\* string.
C24_EmptyTextUpdateClears ==
  /\ emptyTextUpdatesStore(NullStr)
  /\ emptyTextUpdatesReturnAbsent
  /\ noEmptyTextStored

\* An update that had the notes in its patch has left a refill without
\* notes: of the texts offered, only the empty string does that.
C24_Witness ==
  /\ ret.op = "updateRefill"
  /\ ret.status = "ok"
  /\ "notes" \in ret.arg.keys
  /\ refills[ret.arg.id].notes = NullStr
  /\ ret.val.notes = UndefinedStr

\* ---------------------------------------------------------------------- C25
hasTable(name, columns) ==
  \E o \in schema : o.kind = "table" /\ o.name = name /\ columns \subseteq o.columns
hasIndex(name, table) ==
  \E o \in schema : o.kind = "index" /\ o.name = name /\ o.on = table

\* The part of C25 about the three entity tables: each exists with its
\* columns and the index on its date column, initially and after every
\* resetDatabase.
C25_SchemaHasEntityTables ==
  /\ hasTable("expenses", ExpensesTable.columns) /\ hasIndex("idx_expenses_date", "expenses")
  /\ hasTable("refills", RefillsTable.columns) /\ hasIndex("idx_refills_date", "refills")
  /\ hasTable("trips", TripsTable.columns) /\ hasIndex("idx_trips_date", "trips")

\* C25: after initialisation and after every resetDatabase the schema has a
\* sessions table with the columns id, authenticated, created_at and
\* expires_at and the index idx_sessions_expires on it, next to the
\* expenses, refills and trips tables with their date indexes.
C25_SchemaHasSessionsTable ==
  /\ hasTable("sessions", {"id", "authenticated", "created_at", "expires_at"})
  /\ hasIndex("idx_sessions_expires", "sessions")
  /\ C25_SchemaHasEntityTables

\* ---------------------------------------------------------------------- C26
\* The refill entity has the liters L.
keepsLiters(entity, L) ==
  IF L = Undefined THEN "liters" \notin DOMAIN entity
  ELSE "liters" \in DOMAIN entity /\ entity.liters = L

\* C26: a refill created with liters L > 0 is returned by createRefill, and
\* by getRefillById afterwards, with liters = L; one created without liters
\* has no liters field.
C26_CreatedLitersKept ==
  (ret.op = "createRefill" /\ ret.status = "ok") =>
     /\ keepsLiters(ret.val, ret.arg.liters)
     /\ keepsLiters(getRefillById(ret.val.id), ret.arg.liters)

\* What the code does with liters: no stored row has a value in the column
\* and no refill entity has the field, whatever createRefill was given.
C26_LitersAlwaysDropped ==
  /\ \A id \in DOMAIN refills :
       refills[id].liters = Null /\ "liters" \notin DOMAIN getRefillById(id)
  /\ (ret.op \in {"createRefill", "updateRefill"} /\ ret.status = "ok") =>
       "liters" \notin DOMAIN ret.val

\* ---------------------------------------------------------------------- C27
\* The ids of a table are integers from 1 up to the greatest id assigned in
\* it so far, and each row is stored under its own id.
idsWellFormed(rows, assigned) ==
  \A id \in DOMAIN rows : id \in Nat /\ 1 <= id /\ id <= assigned /\ rows[id].id = id

\* A create of the table has just returned: its id is greater than every id
\* assigned before, and the new row is the only change of the table's ids.
freshId(op, old, new, before, after) ==
  (ret'.op = op /\ ret'.status = "ok" /\ now' = now) =>
     /\ ret'.val.id > before
     /\ \A id \in DOMAIN old : ret'.val.id > id
     /\ after = ret'.val.id
     /\ DOMAIN new = DOMAIN old \cup {ret'.val.id}

\* C27: in each table the ids are integers >= 1 and unique, and none is
\* used again: the greatest id assigned never goes down, and each create
\* returns an id greater than every id assigned in its table before, rows
\* deleted since included.
C27_IdsUniqueNeverReused ==
  /\ [](/\ idsWellFormed(expenses, seq.expenses)
        /\ idsWellFormed(refills, seq.refills)
        /\ idsWellFormed(trips, seq.trips))
  /\ [][/\ seq'.expenses >= seq.expenses
        /\ seq'.refills >= seq.refills
        /\ seq'.trips >= seq.trips
        /\ freshId("createExpense", expenses, expenses', seq.expenses, seq'.expenses)
        /\ freshId("createRefill", refills, refills', seq.refills, seq'.refills)
        /\ freshId("createTrip", trips, trips', seq.trips, seq'.trips)]_vars

\* A trip was created after trip 1 was deleted: it is trip 2, the only row.
C27_Witness ==
  /\ ret.op = "createTrip"
  /\ ret.status = "ok"
  /\ ret.val.id = 2
  /\ DOMAIN trips = {2}

\* ---------------------------------------------------------------------- C28
\* No step of another handler falls inside a service call: while the handler
\* of slot r is between the existence check and the answer of updateRefill,
\* a step is a step of r, and the row it has read is the row stored.
callsRunToCompletion ==
  \A r \in RequestSlots :
    loop.requests[r].pc \in {"checked", "written"} =>
      /\ loop.running = r
      /\ \A other \in RequestSlots \ {r} : loop'.requests[other] = loop.requests[other]
      /\ loop.requests[r].pc = "checked" =>
           loop.requests[r].existing = getRefillById(loop.requests[r].id.v)
      /\ <<expenses, trips, seq, web>>' = <<expenses, trips, seq, web>>

\* Between service calls the stored efficiency of refill id is the quotient
\* of its stored amount and distance.
quotientStored(id) ==
  LET refill == getRefillById(id)
      quotient == jsDiv(refill.amountSpent, refill.distanceTraveled)
  IN quotient # NaN /\ refill.efficiency = quotient

\* C28: requests interleave at their awaits only, never inside a service
\* call, and whenever no service call is under way every stored refill has
\* efficiency == amountSpent / distanceTraveled, whatever updates of its
\* amount and of its distance the requests in flight have made.
C28_ConcurrentUpdatesKeepEfficiency ==
  /\ [](loop.running = 0 => \A id \in DOMAIN refills : quotientStored(id))
  /\ [][callsRunToCompletion]_vars

\* The part of C28 that holds: service calls do not interleave, and the
\* stored efficiency is the quotient whenever that quotient is a number.
C28_CallsAtomicFiniteEfficiency ==
  /\ [](loop.running = 0 =>
          \A id \in DOMAIN refills :
            LET refill == getRefillById(id)
            IN jsDiv(refill.amountSpent, refill.distanceTraveled) # NaN => quotientStored(id))
  /\ [][callsRunToCompletion]_vars

\* Two requests for refill 1 in flight: one is inside updateRefill and has
\* written its amount, the other, with a new distance, waits for its body.
C28_InFlight ==
  /\ loop.requests[1].pc = "written" /\ loop.requests[2].pc = "body"
  /\ loop.requests[1].id = Num(1) /\ loop.requests[2].id = Num(1)
  /\ keysOf(loop.requests[1].updates) = {"amountSpent"}
  /\ keysOf(loop.requests[2].updates) = {"distanceTraveled"}
  /\ refills[1].amount_spent = Num(2)
  /\ refills[1].efficiency = jsDiv(Num(2), Num(1))

\* ---------------------------------------------------------------------- C29
ExpenseWrites == {"createExpense", "updateExpense", "deleteExpense"}
RefillWrites == {"createRefill", "updateRefill", "deleteRefill"}
TripWrites == {"createTrip", "updateTrip", "deleteTrip"}
ServiceReads ==
  {"getExpenses", "getRefills", "getTrips", "getExpenseById", "getRefillById",
   "getTripById", "getTotalDistance", "getMileageOverTime"}

\* C29: a create, update or delete of one service, whether it returns or
\* throws, leaves the rows and the id counter of the other two tables as
\* they were, and a read (list, getById, getTotalDistance,
\* getMileageOverTime) leaves all three tables as they were.
C29_TablesIndependent ==
  [][/\ ret'.op \in ExpenseWrites =>
          refills' = refills /\ trips' = trips
          /\ seq'.refills = seq.refills /\ seq'.trips = seq.trips
     /\ ret'.op \in RefillWrites =>
          expenses' = expenses /\ trips' = trips
          /\ seq'.expenses = seq.expenses /\ seq'.trips = seq.trips
     /\ ret'.op \in TripWrites =>
          expenses' = expenses /\ refills' = refills
          /\ seq'.expenses = seq.expenses /\ seq'.refills = seq.refills
     /\ ret'.op \in ServiceReads =>
          expenses' = expenses /\ refills' = refills /\ trips' = trips /\ seq' = seq
     /\ ret'.op \in ExpenseWrites \cup RefillWrites \cup TripWrites \cup ServiceReads]_vars

\* Expense 1 has just been deleted while refill 1 is stored.
C29_Witness ==
  /\ ret.op = "deleteExpense"
  /\ ret.arg.id = 1
  /\ ret.val = TRUE
  /\ 1 \in DOMAIN refills
  /\ 1 \notin DOMAIN expenses

\* ---------------------------------------------------------------------- C30
\* The distances of the stored trips with ids up to n, added up.
RECURSIVE tripDistancesUpTo(_)
tripDistancesUpTo(n) ==
  IF n = 0 THEN 0
  ELSE tripDistancesUpTo(n - 1) + (IF n \in DOMAIN trips THEN trips[n].distance.v ELSE 0)

\* What the last call of the trip service did to the total.
totalFollows(total, after) ==
  /\ (ret'.op = "createTrip" /\ ret'.status = "ok") => after = total + ret'.val.distance.v
  /\ (ret'.op = "deleteTrip" /\ ret'.val = TRUE) =>
        after = total - trips[ret'.arg.id].distance.v
  /\ (ret'.op = "deleteTrip" /\ ret'.val = FALSE) => after = total
  /\ (ret'.op = "updateTrip" /\ ret'.status = "ok") =>
        after = total - trips[ret'.arg.id].distance.v + ret'.val.distance.v
  /\ ret'.op \in {"createRefill", "updateRefill", "deleteRefill", "getTotalDistance"} =>
        after = total

\* C30: getTotalDistance is the sum of the distances of the trips stored,
\* 0 without trips, whatever refills are stored; each createTrip adds its
\* distance, each deleteTrip takes the deleted trip's distance off, each
\* updateTrip replaces the old distance by the new one.
C30_TotalIsSumOfTrips ==
  /\ [](/\ getTotalDistance = Num(tripDistancesUpTo(seq.trips))
        /\ DOMAIN trips = {} => getTotalDistance = Num(0)
        /\ ret.op = "getTotalDistance" => ret.val = Num(tripDistancesUpTo(seq.trips)))
  /\ [][totalFollows(getTotalDistance.v, getTotalDistance'.v)]_vars

\* The total was read as 2 with one trip of distance 2 stored next to a
\* refill.
C30_Witness ==
  /\ ret.op = "getTotalDistance"
  /\ ret.val = Num(2)
  /\ DOMAIN trips = {1} /\ trips[1].distance = Num(2)
  /\ DOMAIN refills # {}

========================================================================
